---- MODULE Spec2Model ----
(***************************************************************************)
(* Model of regsync's tag cleanup (cmd/regsync/cleanup.go) and of the      *)
(* descriptor package as its tests exercise it: Equal and Same, GetData,   *)
(* DescriptorListSearch, MatchOpt.Merge, DigestAlgo and DigestAlgoPrefer.  *)
(*                                                                         *)
(* An error value is a sequence of error records: <<>> is Go's nil error,  *)
(* <<e>> a single error, and errors.Join(errs...) the sequence errs.       *)
(***************************************************************************)
EXTENDS Integers, Sequences, FiniteSets, TLC

VARIABLES
    conf,   \* opts.conf.Sync, the configured sync rules
    repo,   \* the tags each target repository holds in the registry
    inv,    \* the cleanupTags invocations
    cmp,    \* a comparison of two descriptors
    get,    \* a GetData call on a descriptor
    srch,   \* a DescriptorListSearch call
    mrg,    \* a MatchOpt built by successive Merge calls
    alg     \* a descriptor and the DigestAlgoPrefer/DigestAlgo calls on it

vars == <<conf, repo, inv, cmp, get, srch, mrg, alg>>

\* the variables of the descriptor package
libVars == <<cmp, get, srch, mrg, alg>>

\* the variables of the tag cleanup
cleanupVars == <<conf, repo, inv>>

----------------------------------------------------------------------------
(* Bounds *)

\* number of tag names of the universe a repository may hold
NumTags == 3
\* largest number of sync rules in the configuration
MaxSync == 2

----------------------------------------------------------------------------
(* Values *)

TagNames == <<"latest", "v1.2.0", "old", "v0.9.0", "stable">>

AllTags == {TagNames[k] : k \in 1..NumTags}

\* target strings with a repository behind them, and one ref.New rejects
Targets == {"r1", "r2"}

InvalidTarget == "R1"

Err(kind, arg) == [kind |-> kind, arg |-> arg]

ErrCanceled == Err("Canceled", "")

Contains(seq, x) == \E k \in 1..Len(seq) : seq[k] = x

----------------------------------------------------------------------------
(* Regular expressions, over the patterns the configurations use *)

BadPattern == "("

\* regexp.Compile(pattern) succeeds
Compiles(pattern) == pattern # BadPattern

\* exp.MatchString(tag) for a pattern that compiles
Matches(pattern, tag) ==
    CASE pattern = "^latest$" -> tag = "latest"
      [] pattern = "^old$"    -> tag = "old"
      [] pattern = "^stable$" -> tag = "stable"
      [] pattern = "^v"       -> tag \in {"v1.2.0", "v0.9.0"}
      [] pattern = "^v0\\."   -> tag = "v0.9.0"
      [] pattern = ".*"       -> TRUE
      [] OTHER                -> FALSE

\* a tag parses as a semantic version inside the range
InSemverRange(range, tag) ==
    CASE range = ">=1.0.0" -> tag = "v1.2.0"
      [] OTHER             -> FALSE

----------------------------------------------------------------------------
(* Tag Filter *)

FirstBad(patterns) ==
    LET bad == SelectSeq(patterns, LAMBDA p : ~Compiles(p))
    IN  IF bad = <<>> THEN <<>> ELSE <<Err("InvalidPattern", bad[1])>>

TagPasses(set, tag) ==
    /\ (Len(set.Allow) > 0 => \E k \in 1..Len(set.Allow) : Matches(set.Allow[k], tag))
    /\ ~ \E k \in 1..Len(set.Deny) : Matches(set.Deny[k], tag)
    /\ (set.SemverRange # "" => InSemverRange(set.SemverRange, tag))

\* filterTagList(set, tags): [err, tags]
filterTagList(set, tags) ==
    LET bad == FirstBad(set.Allow \o set.Deny)
    IN  IF bad # <<>>
        THEN [err |-> bad, tags |-> <<>>]
        ELSE [err |-> <<>>, tags |-> SelectSeq(tags, LAMBDA t : TagPasses(set, t))]

----------------------------------------------------------------------------
(* cleanup.go *)

RECURSIVE matchesExclusionPattern(_, _)
\* [excluded, pattern, err]
matchesExclusionPattern(tag, patterns) ==
    IF Len(patterns) = 0
    THEN [excluded |-> FALSE, pattern |-> "", err |-> <<>>]
    ELSE LET pattern == Head(patterns)
         IN  IF ~Compiles(pattern)
             THEN [excluded |-> FALSE, pattern |-> "",
                   err |-> <<Err("InvalidPattern", pattern)>>]
             ELSE IF Matches(pattern, tag)
             THEN [excluded |-> TRUE, pattern |-> pattern, err |-> <<>>]
             ELSE matchesExclusionPattern(tag, Tail(patterns))

findSyncEntriesForTarget(tgt) ==
    SelectSeq(conf, LAMBDA sync : sync.Target = tgt)

\* the filter sets of one sync entry (lines 96-99)
EffectiveSets(syncEntry) ==
    IF \/ Len(syncEntry.Tags.Allow) > 0
       \/ Len(syncEntry.Tags.Deny) > 0
       \/ syncEntry.Tags.SemverRange # ""
    THEN Append(syncEntry.TagSets, syncEntry.Tags)
    ELSE syncEntry.TagSets

\* wantedTags = filteredCur
AddUnique_overwrite(wantedTags, filteredCur) == filteredCur

RECURSIVE AddUnique(_, _)
\* lines 115-119
AddUnique(wantedTags, filteredCur) ==
    IF filteredCur = <<>>
    THEN wantedTags
    ELSE AddUnique(IF Contains(wantedTags, Head(filteredCur))
                   THEN wantedTags
                   ELSE Append(wantedTags, Head(filteredCur)),
                   Tail(filteredCur))

RECURSIVE WantedFromSets_skipErr(_, _, _)
\* a filter error is logged and the set skipped
WantedFromSets_skipErr(sets, tTagsList, wantedTags) ==
    IF sets = <<>>
    THEN [err |-> <<>>, wantedTags |-> wantedTags]
    ELSE LET f == filterTagList(Head(sets), tTagsList)
         IN  WantedFromSets_skipErr(Tail(sets), tTagsList, AddUnique(wantedTags, f.tags))

RECURSIVE WantedFromSets(_, _, _)
\* the loop over one entry's sets (lines 103-120): [err, wantedTags]
WantedFromSets(sets, tTagsList, wantedTags) ==
    IF sets = <<>>
    THEN [err |-> <<>>, wantedTags |-> wantedTags]
    ELSE LET f == filterTagList(Head(sets), tTagsList)
         IN  IF f.err # <<>>
             THEN [err |-> f.err, wantedTags |-> wantedTags]
             ELSE WantedFromSets(Tail(sets), tTagsList, AddUnique(wantedTags, f.tags))

RECURSIVE WantedFromEntries(_, _, _, _)
\* the loop over the sync entries (lines 95-122): [err, wantedTags, allSetsEmpty]
WantedFromEntries(syncEntries, tTagsList, wantedTags, allSetsEmpty) ==
    IF syncEntries = <<>>
    THEN [err |-> <<>>, wantedTags |-> wantedTags, allSetsEmpty |-> allSetsEmpty]
    ELSE LET sets == EffectiveSets(Head(syncEntries))
         IN  IF Len(sets) > 0
             THEN LET r == WantedFromSets(sets, tTagsList, wantedTags)
                  IN  IF r.err # <<>>
                      THEN [err |-> r.err, wantedTags |-> r.wantedTags,
                            allSetsEmpty |-> FALSE]
                      ELSE WantedFromEntries(Tail(syncEntries), tTagsList,
                                             r.wantedTags, FALSE)
             ELSE WantedFromEntries(Tail(syncEntries), tTagsList,
                                    wantedTags, allSetsEmpty)

\* without lines 125-127
BuildWanted_noDefault(syncEntries, tTagsList) ==
    LET r == WantedFromEntries(syncEntries, tTagsList, <<>>, TRUE)
    IN  [err |-> r.err, wantedTags |-> r.wantedTags]

\* a sync entry without filter sets makes every listed tag wanted
BuildWanted_anyUnfiltered(syncEntries, tTagsList) ==
    LET r == WantedFromEntries(syncEntries, tTagsList, <<>>, TRUE)
    IN  [err |-> r.err,
         wantedTags |-> IF /\ r.err = <<>>
                           /\ \E k \in 1..Len(syncEntries) :
                                 EffectiveSets(syncEntries[k]) = <<>>
                        THEN tTagsList
                        ELSE r.wantedTags]

\* lines 91-127: [err, wantedTags]
BuildWanted(syncEntries, tTagsList) ==
    LET r == WantedFromEntries(syncEntries, tTagsList, <<>>, TRUE)
    IN  [err |-> r.err,
         wantedTags |-> IF r.err = <<>> /\ r.allSetsEmpty THEN tTagsList
                        ELSE r.wantedTags]

\* only the first entry's patterns
CollectExclusions_first(syncEntries) ==
    IF syncEntries = <<>> THEN <<>> ELSE Head(syncEntries).CleanupTagsExclude

RECURSIVE CollectExclusions(_)
\* lines 130-133
CollectExclusions(syncEntries) ==
    IF syncEntries = <<>>
    THEN <<>>
    ELSE Head(syncEntries).CleanupTagsExclude \o CollectExclusions(Tail(syncEntries))

RECURSIVE IdentifyDeletes_prepend(_, _, _, _)
\* lines 136-162 with each tag put in front of tagsToDelete
IdentifyDeletes_prepend(tTagsList, wantedTags, allExclusionPatterns, tagsToDelete) ==
    IF tTagsList = <<>>
    THEN [err |-> <<>>, tagsToDelete |-> tagsToDelete]
    ELSE LET tag == Head(tTagsList)
         IN  IF Contains(wantedTags, tag)
             THEN IdentifyDeletes_prepend(Tail(tTagsList), wantedTags,
                                          allExclusionPatterns, tagsToDelete)
             ELSE LET m == matchesExclusionPattern(tag, allExclusionPatterns)
                  IN  IF m.err # <<>>
                      THEN [err |-> m.err, tagsToDelete |-> tagsToDelete]
                      ELSE IdentifyDeletes_prepend(Tail(tTagsList), wantedTags,
                                                   allExclusionPatterns,
                                                   IF m.excluded THEN tagsToDelete
                                                   ELSE <<tag>> \o tagsToDelete)

RECURSIVE IdentifyDeletes(_, _, _, _)
\* lines 136-162: [err, tagsToDelete]
IdentifyDeletes(tTagsList, wantedTags, allExclusionPatterns, tagsToDelete) ==
    IF tTagsList = <<>>
    THEN [err |-> <<>>, tagsToDelete |-> tagsToDelete]
    ELSE LET tag == Head(tTagsList)
         IN  IF Contains(wantedTags, tag)
             THEN IdentifyDeletes(Tail(tTagsList), wantedTags,
                                  allExclusionPatterns, tagsToDelete)
             ELSE LET m == matchesExclusionPattern(tag, allExclusionPatterns)
                  IN  IF m.err # <<>>
                      THEN [err |-> m.err, tagsToDelete |-> tagsToDelete]
                      ELSE IdentifyDeletes(Tail(tTagsList), wantedTags,
                                           allExclusionPatterns,
                                           IF m.excluded THEN tagsToDelete
                                           ELSE Append(tagsToDelete, tag))

----------------------------------------------------------------------------
(* Descriptors *)

Docker2Manifest == "application/vnd.docker.distribution.manifest.v2+json"

Docker2ManifestList == "application/vnd.docker.distribution.manifest.list.v2+json"

OCI1Manifest == "application/vnd.oci.image.manifest.v1+json"

OCI1ManifestList == "application/vnd.oci.image.index.v1+json"

digA == "sha256:test A"

digB == "sha256:test B"

\* an optional field that is not set
Nil == [set |-> FALSE, val |-> {}]

Some(v) == [set |-> TRUE, val |-> v]

\* a nil *platform.Platform
NoPlatform == [set |-> FALSE, val |-> [OS |-> "", Architecture |-> ""]]

\* Descriptor{}: every field at its zero value
EmptyDescriptor ==
    [MediaType |-> "", Size |-> 0, Digest |-> "", Annotations |-> Nil,
     URLs |-> Nil, Platform |-> NoPlatform, ArtifactType |-> ""]

\* the OCI media type a media type converts to ("" when it has none)
MediaTypeOCI(mt) ==
    CASE mt \in {Docker2Manifest, OCI1Manifest}         -> OCI1Manifest
      [] mt \in {Docker2ManifestList, OCI1ManifestList} -> OCI1ManifestList
      [] OTHER                                          -> ""

\* Same compares digest and size only
Same_digestAndSize(d, d2) == d.Digest = d2.Digest /\ d.Size = d2.Size

\* d.Same(d2)
Same(d, d2) ==
    /\ d.Digest = d2.Digest
    /\ d.Size = d2.Size
    /\ \/ d.MediaType = d2.MediaType
       \/ /\ MediaTypeOCI(d.MediaType) = MediaTypeOCI(d2.MediaType)
          /\ MediaTypeOCI(d.MediaType) # ""

\* d.Equal(d2): every field, maps and url lists as sets
Equal(d, d2) ==
    /\ d.MediaType = d2.MediaType
    /\ d.Size = d2.Size
    /\ d.Digest = d2.Digest
    /\ d.Annotations = d2.Annotations
    /\ d.URLs = d2.URLs
    /\ d.Platform = d2.Platform
    /\ d.ArtifactType = d2.ArtifactType

\* the descriptor most rows of TestCompare start from
TestDescriptor ==
    [EmptyDescriptor EXCEPT !.MediaType = Docker2Manifest, !.Size = 1234, !.Digest = digA]

CompareRow(name, d1, d2, expectEqual, expectSame) ==
    [name |-> name, d1 |-> d1, d2 |-> d2,
     expectEqual |-> expectEqual, expectSame |-> expectSame]

\* the table with the row "converting OCI media type" expecting not Same
TestCompare_convertingNotSame ==
    { CompareRow("empty", EmptyDescriptor, EmptyDescriptor, TRUE, TRUE),
      CompareRow("empty d1", EmptyDescriptor, TestDescriptor, FALSE, FALSE),
      CompareRow("empty d2", TestDescriptor, EmptyDescriptor, FALSE, FALSE),
      CompareRow("same simple manifest", TestDescriptor, TestDescriptor, TRUE, TRUE),
      CompareRow("converting OCI media type", TestDescriptor,
                 [TestDescriptor EXCEPT !.MediaType = OCI1Manifest], FALSE, FALSE),
      CompareRow("different media type", TestDescriptor,
                 [TestDescriptor EXCEPT !.MediaType = Docker2ManifestList], FALSE, FALSE),
      CompareRow("different size", TestDescriptor,
                 [TestDescriptor EXCEPT !.Size = 4321], FALSE, FALSE),
      CompareRow("different digest", TestDescriptor,
                 [TestDescriptor EXCEPT !.Digest = digB], FALSE, FALSE) }

\* the table with the row "different media type" expecting Same
TestCompare_sameAcrossKinds ==
    { CompareRow("empty", EmptyDescriptor, EmptyDescriptor, TRUE, TRUE),
      CompareRow("empty d1", EmptyDescriptor, TestDescriptor, FALSE, FALSE),
      CompareRow("empty d2", TestDescriptor, EmptyDescriptor, FALSE, FALSE),
      CompareRow("same simple manifest", TestDescriptor, TestDescriptor, TRUE, TRUE),
      CompareRow("converting OCI media type", TestDescriptor,
                 [TestDescriptor EXCEPT !.MediaType = OCI1Manifest], FALSE, TRUE),
      CompareRow("different media type", TestDescriptor,
                 [TestDescriptor EXCEPT !.MediaType = Docker2ManifestList], FALSE, TRUE),
      CompareRow("different size", TestDescriptor,
                 [TestDescriptor EXCEPT !.Size = 4321], FALSE, FALSE),
      CompareRow("different digest", TestDescriptor,
                 [TestDescriptor EXCEPT !.Digest = digB], FALSE, FALSE) }

\* the rows of TestCompare's table that vary media type, size and digest
TestCompare ==
    { CompareRow("empty", EmptyDescriptor, EmptyDescriptor, TRUE, TRUE),
      CompareRow("empty d1", EmptyDescriptor, TestDescriptor, FALSE, FALSE),
      CompareRow("empty d2", TestDescriptor, EmptyDescriptor, FALSE, FALSE),
      CompareRow("same simple manifest", TestDescriptor, TestDescriptor, TRUE, TRUE),
      CompareRow("converting OCI media type", TestDescriptor,
                 [TestDescriptor EXCEPT !.MediaType = OCI1Manifest], FALSE, TRUE),
      CompareRow("different media type", TestDescriptor,
                 [TestDescriptor EXCEPT !.MediaType = Docker2ManifestList], FALSE, FALSE),
      CompareRow("different size", TestDescriptor,
                 [TestDescriptor EXCEPT !.Size = 4321], FALSE, FALSE),
      CompareRow("different digest", TestDescriptor,
                 [TestDescriptor EXCEPT !.Digest = digB], FALSE, FALSE) }

\* the values the rows of TestCompare give the optional fields
annAB == Some({<<"key a", "value a">>, <<"key b", "value b">>})

\* the same map, written in the other order
annBA == Some({<<"key b", "value b">>, <<"key a", "value a">>})

annCD == Some({<<"key a", "value c">>, <<"key d", "value b">>})

urlsAB == Some({"url a", "url b"})

urlsCD == Some({"url c", "url d"})

platAMD64 == Some([OS |-> "linux", Architecture |-> "amd64"])

platARM64 == Some([OS |-> "linux", Architecture |-> "arm64"])

\* a row whose operands are the tests' descriptor with one field changed
FieldRow(name, field, v1, v2, expectEqual, expectSame) ==
    CompareRow(name, [TestDescriptor EXCEPT ![field] = v1],
               [TestDescriptor EXCEPT ![field] = v2], expectEqual, expectSame)

\* the rows of TestCompare's table that vary the optional fields, given
\* what "annotation eq" expects of Same and "urls missing" of Equal
FieldRows(annotationEqSame, urlsMissingEqual) ==
    { FieldRow("annotation eq", "Annotations", annAB, annBA, TRUE, annotationEqSame),
      FieldRow("annotation diff", "Annotations", annAB, annCD, FALSE, TRUE),
      FieldRow("annotation missing", "Annotations", annAB, Nil, FALSE, TRUE),
      FieldRow("urls eq", "URLs", urlsAB, urlsAB, TRUE, TRUE),
      FieldRow("urls diff", "URLs", urlsAB, urlsCD, FALSE, TRUE),
      FieldRow("urls missing", "URLs", urlsAB, Nil, urlsMissingEqual, TRUE),
      FieldRow("platform eq", "Platform", platAMD64, platAMD64, TRUE, TRUE),
      FieldRow("platform diff", "Platform", platAMD64, platARM64, FALSE, TRUE),
      FieldRow("platform missing", "Platform", platAMD64, NoPlatform, FALSE, TRUE),
      FieldRow("artifactType eq", "ArtifactType", "application/vnd.example.test",
               "application/vnd.example.test", TRUE, TRUE),
      FieldRow("artifactType diff", "ArtifactType", "application/vnd.example.test",
               "application/vnd.example.test2", FALSE, TRUE),
      FieldRow("artifactType missing", "ArtifactType", "application/vnd.example.test",
               "", FALSE, TRUE) }

\* the table with "annotation eq" expecting Equal without Same
TestCompareFields_equalNotSame == FieldRows(FALSE, FALSE)

\* the table with "urls missing" expecting Equal
TestCompareFields_missingEqual == FieldRows(TRUE, TRUE)

\* the rows of TestCompare's table that vary annotations, urls, platform
\* and artifact type
TestCompareFields == FieldRows(TRUE, FALSE)

\* the descriptors compared
AnnotationValues ==
    { Nil,
      Some({<<"key a", "value a">>, <<"key b", "value b">>}),
      Some({<<"key a", "value c">>, <<"key d", "value b">>}) }

URLValues == {Nil, Some({"url a", "url b"}), Some({"url c", "url d"})}

PlatformValues ==
    { NoPlatform,
      Some([OS |-> "linux", Architecture |-> "amd64"]),
      Some([OS |-> "linux", Architecture |-> "arm64"]) }

ArtifactTypeValues == {"", "application/vnd.example.test", "application/vnd.example.test2"}

Descriptors ==
    {EmptyDescriptor} \cup
    [MediaType : {Docker2Manifest, OCI1Manifest, Docker2ManifestList},
     Size : {1234, 4321}, Digest : {digA, digB},
     Annotations : AnnotationValues, URLs : URLValues,
     Platform : PlatformValues, ArtifactType : ArtifactTypeValues]

\* the first operands: the tests' descriptor, bare and with optional fields
FirstDescriptors ==
    {d \in Descriptors :
        /\ d.MediaType \in {"", Docker2Manifest}
        /\ d.Size \in {0, 1234}
        /\ d.Digest \in {"", digA}
        /\ d.Annotations \in {Nil, Some({<<"key a", "value a">>, <<"key b", "value b">>})}
        /\ d.URLs \in {Nil, Some({"url a", "url b"})}
        /\ d.Platform \in {NoPlatform, Some([OS |-> "linux", Architecture |-> "amd64"])}
        /\ d.ArtifactType \in {"", "application/vnd.example.test"} }

IdleCmp == [pc |-> "idle", d1 |-> EmptyDescriptor, d2 |-> EmptyDescriptor,
            equal |-> FALSE, same |-> FALSE]

----------------------------------------------------------------------------
(* Digests *)

SHA256 == "sha256"

SHA512 == "sha512"

\* digest.Canonical
Canonical == SHA256

\* the registered hash algorithms
Algorithms == {SHA256, SHA512}

\* the number of hex digits of a hash of the algorithm
HexLen(algo) ==
    CASE algo = SHA256 -> 64
      [] algo = SHA512 -> 128
      [] OTHER         -> 0

\* the digests of "hello world"
dig256 == "sha256:b94d27b9934d3e08a52e52d7da7dabfac484efe37a5380ee9088f7ace2efcde9"

dig512 == "sha512:309ecc489c12d6eb4cc40f50c902f2b4d0ed77ee511a7c7a9bcd3ca86d4cd86f989dd35bc5ff499670da34255b45b0cfd830e81f605dcf7dc5542e93ae9cd76f"

digInvalidHash == "sha512:1234"

digInvalidFormat == "unknown"

digInvalidAlgorithm == "sha123:123412341234"

\* the digests of "example data"
digData256 == "sha256:44752f37272e944fd2c913a35342eaccdd1aaf189bae50676b301ab213fc5061"

digData512 == "sha512:ed59c5759a9ece516cec0c0623142d0e9fe70a27d750eee7fd38f4550d50addd873d0fa1a51fc823c1e3d5cada203f4a05d8325caacb7d3e0727a701f3f07e5f"

\* the digest of no content
EmptyDigest == "sha256:e3b0c44298fc1c149afbf4c8996fb92427ae41e4649b934ca495991b7852b855"

\* well-formed digests of other content
digOther256 == "sha256:e4a380728755139f156563e8b795581d5915dcc947fe937c524c6d52fd604b99"

digOther512 == "sha512:1239c5759a9ece516cec0c0623142d0e9fe70a27d750eee7fd38f4550d50addd873d0fa1a51fc823c1e3d5cada203f4a05d8325caacb7d3e0727a701f3f07e5f"

digLayer == "sha256:f6e2d7fa40092cf3d9817bf6ff54183d68d108a47fdf5a5e476c612626c80e14"

\* the digest strings split on the first ":": the algorithm and the
\* number of hex digits after it (no ":" leaves both empty)
SplitDigest(dig) ==
    CASE dig \in {dig256, digData256, digOther256, digLayer}
                                    -> [algo |-> "sha256", hex |-> 64]
      [] dig \in {dig512, digData512, digOther512}
                                    -> [algo |-> "sha512", hex |-> 128]
      [] dig = digInvalidHash       -> [algo |-> "sha512", hex |-> 4]
      [] dig = digInvalidAlgorithm  -> [algo |-> "sha123", hex |-> 12]
      [] OTHER                      -> [algo |-> "", hex |-> 0]

\* the digest parses: a registered algorithm and a hash of its length
DigestValid(dig) ==
    /\ SplitDigest(dig).algo \in Algorithms
    /\ SplitDigest(dig).hex = HexLen(SplitDigest(dig).algo)

\* d.DigestAlgo(): the algorithm of a valid digest, else the preferred
\* algorithm when one is set, else the canonical one
DigestAlgo(d) ==
    IF DigestValid(d.Digest) THEN SplitDigest(d.Digest).algo
    ELSE IF d.digAlgo # "" THEN d.digAlgo
    ELSE Canonical

\* d.DigestAlgoPrefer(algo): the descriptor after the call and its error
DigestAlgoPrefer(d, algo) ==
    IF algo \notin Algorithms
    THEN [d |-> d, err |-> << Err("Unsupported", algo) >>]
    ELSE [d |-> [d EXCEPT !.digAlgo = algo], err |-> <<>>]

----------------------------------------------------------------------------
(* Inline data *)

Docker2LayerGzip == "application/vnd.docker.image.rootfs.diff.tar.gzip"

OCI1LayerGzip == "application/vnd.oci.image.layer.v1.tar+gzip"

\* no data: a nil or empty byte slice
NoData == ""

ExampleData == "example data"

\* len(data)
DataLen(data) ==
    CASE data = ExampleData -> 12
      [] OTHER              -> 0

\* algo.FromBytes(data)
FromBytes(algo, data) ==
    CASE algo = SHA256 /\ data = ExampleData -> digData256
      [] algo = SHA512 /\ data = ExampleData -> digData512
      [] algo = SHA256 /\ data = NoData -> EmptyDigest
      [] algo = SHA512 /\ data = NoData
           -> "sha512:cf83e1357eefb8bdf1542850d66d8007d620e4050b5715dc83f4a921d36ce9ce47d0d13c5d85f2b0ff8318d2877eec2f63b931bd47417a81a538327af927da3e"
      [] OTHER -> ""

ErrParsingFailed == Err("ParsingFailed", "")

\* d.GetData(): the data and the error returned
GetData(d) ==
    IF DataLen(d.Data) = 0
    THEN [data |-> NoData, err |-> << ErrParsingFailed >>]
    ELSE IF DataLen(d.Data) # d.Size
    THEN [data |-> NoData, err |-> << ErrParsingFailed >>]
    ELSE IF FromBytes(DigestAlgo(d), d.Data) # d.Digest
    THEN [data |-> NoData, err |-> << ErrParsingFailed >>]
    ELSE [data |-> d.Data, err |-> <<>>]

\* a descriptor carrying inline data
DataDescriptor(mediaType, size, digest, data) ==
    [MediaType |-> mediaType, Size |-> size, Digest |-> digest, Data |-> data,
     digAlgo |-> ""]

GetDataRow(name, d, wantData, wantErr) ==
    [name |-> name, d |-> d, wantData |-> wantData, wantErr |-> wantErr]

\* the table of TestGetDataDescriptor, given what the row "Bad Size" wants
GetDataRows(badSizeData, badSizeErr) ==
    { GetDataRow("No Data", DataDescriptor(Docker2LayerGzip, 941, digLayer, NoData),
                 NoData, "ParsingFailed"),
      GetDataRow("Bad Digest", DataDescriptor(OCI1LayerGzip, 12, digOther256, ExampleData),
                 NoData, "ParsingFailed"),
      GetDataRow("Bad Digest 512",
                 DataDescriptor(OCI1LayerGzip, 12, digOther512, ExampleData),
                 NoData, "ParsingFailed"),
      GetDataRow("Bad Size", DataDescriptor(OCI1LayerGzip, 1000, digData256, ExampleData),
                 badSizeData, badSizeErr),
      GetDataRow("Good data", DataDescriptor(OCI1LayerGzip, 12, digData256, ExampleData),
                 ExampleData, ""),
      GetDataRow("Good data 512",
                 DataDescriptor(OCI1LayerGzip, 12, digData512, ExampleData),
                 ExampleData, "") }

\* the table with the row "Bad Size" wanting the data
TestGetDataDescriptor_badSizeGood == GetDataRows(ExampleData, "")

TestGetDataDescriptor == GetDataRows(NoData, "ParsingFailed")

\* the "data" member of a descriptor's JSON
Base64Example == "ZXhhbXBsZSBkYXRh"

Base64Invalid == "Invalid data string"

\* base64 decoding of the "data" member during json.Unmarshal
DecodeData(s) ==
    CASE s = Base64Example -> [data |-> ExampleData, err |-> <<>>]
      [] s = Base64Invalid
           -> [data |-> NoData, err |-> << Err("illegal base64 data at input byte", "7") >>]
      [] OTHER -> [data |-> NoData, err |-> <<>>]

\* a descriptor's JSON document (data "" when the member is absent)
DataJSON(mediaType, digest, size, data) ==
    [mediaType |-> mediaType, digest |-> digest, size |-> size, data |-> data]

\* json.Unmarshal(dJSON, &desc)
Unmarshal(dJSON) ==
    [d |-> DataDescriptor(dJSON.mediaType, dJSON.size, dJSON.digest,
                          DecodeData(dJSON.data).data),
     err |-> DecodeData(dJSON.data).err]

\* the table of TestGetDataJSON
TestGetDataJSON ==
    { [name |-> "No Data", dJSON |-> DataJSON(Docker2LayerGzip, digLayer, 941, ""),
       wantData |-> NoData, wantErr |-> "ParsingFailed"],
      [name |-> "Bad Data",
       dJSON |-> DataJSON(OCI1LayerGzip, digLayer, 1234, Base64Invalid),
       wantData |-> NoData, wantErr |-> "illegal base64 data at input byte"],
      [name |-> "Bad Digest",
       dJSON |-> DataJSON(OCI1LayerGzip, digOther256, 10, Base64Example),
       wantData |-> NoData, wantErr |-> "ParsingFailed"],
      [name |-> "Bad Size",
       dJSON |-> DataJSON(OCI1LayerGzip, digData256, 1000, Base64Example),
       wantData |-> NoData, wantErr |-> "ParsingFailed"],
      [name |-> "Good data",
       dJSON |-> DataJSON(OCI1LayerGzip, digData256, 12, Base64Example),
       wantData |-> ExampleData, wantErr |-> ""] }

\* the descriptors and documents GetData is called on
DataDigests ==
    {"", digLayer, digOther256, digOther512, digData256, digData512,
     digInvalidHash, digInvalidFormat, digInvalidAlgorithm}

DataSizes == {0, 10, 12, 941, 1000}

DataDescriptors ==
    { DataDescriptor(mt, size, dig, data) :
        mt \in {Docker2LayerGzip, OCI1LayerGzip}, size \in DataSizes,
        dig \in DataDigests, data \in {NoData, ExampleData} }

DataJSONs ==
    { DataJSON(mt, dig, size, data) :
        mt \in {Docker2LayerGzip, OCI1LayerGzip}, size \in DataSizes,
        dig \in DataDigests, data \in {"", Base64Example, Base64Invalid} }

IdleGet ==
    [pc |-> "idle", dJSON |-> DataJSON("", "", 0, ""),
     d |-> DataDescriptor("", 0, "", NoData), out |-> NoData, err |-> <<>>]

----------------------------------------------------------------------------
(* Descriptor lists and MatchOpt *)

\* a descriptor of TestListSearch's list
ListDescriptor(platform, artifactType, annotations) ==
    [EmptyDescriptor EXCEPT !.MediaType = OCI1Manifest, !.Size = 12345,
                            !.Digest = EmptyDigest, !.Platform = platform,
                            !.ArtifactType = artifactType,
                            !.Annotations = annotations]

PlatformOf(os, arch) == Some([OS |-> os, Architecture |-> arch])

ExampleArtifact == "application/example.artifact"

dAMD64 == ListDescriptor(PlatformOf("linux", "amd64"), "", Nil)

dAMD64Win == ListDescriptor(PlatformOf("windows", "amd64"), "", Nil)

dARM64 == ListDescriptor(PlatformOf("linux", "arm64"), "", Nil)

dAnnotations ==
    ListDescriptor(PlatformOf("linux", "amd64"), "",
                   Some({<<"runtime", "special runtime">>, <<"version", "1.2.3">>,
                         <<"date", "2022-01-01 12:34:56">>}))

dAnnotations2 ==
    ListDescriptor(PlatformOf("linux", "amd64"), "",
                   Some({<<"runtime", "special runtime">>, <<"version", "1.3.0">>,
                         <<"date", "2022-04-01 01:02:03">>}))

dArtifact ==
    ListDescriptor(NoPlatform, ExampleArtifact,
                   Some({<<"version", "1.2.3">>, <<"date", "2022-01-01 12:34:56">>}))

dArtifact2 ==
    ListDescriptor(NoPlatform, ExampleArtifact,
                   Some({<<"version", "1.2.9">>, <<"date", "2022-04-01 01:02:03">>,
                         <<"unique", "x">>}))

dArtifact3 ==
    ListDescriptor(NoPlatform, ExampleArtifact,
                   Some({<<"version", "1.3.0">>, <<"date", "2022-02-28 02:04:08">>}))

testDL ==
    <<dAMD64, dARM64, dAMD64Win, dAnnotations, dAnnotations2,
      dArtifact, dArtifact2, dArtifact3>>

\* an entry for the platform the row "amd64 compat" asks for
dAMD64Darwin == ListDescriptor(PlatformOf("darwin", "amd64"), "", Nil)

\* MatchOpt{}: no constraint (an empty annotation map is a nil one)
EmptyMatchOpt ==
    [Platform |-> NoPlatform, Annotations |-> {}, ArtifactType |-> "",
     SortAnnotation |-> "", SortDesc |-> FALSE]

\* the annotation values in ascending string order
SortedStrings ==
    <<"1.2.3", "1.2.9", "1.3.0", "2022-01-01 12:34:56", "2022-02-28 02:04:08",
      "2022-04-01 01:02:03", "special runtime", "x">>

\* strings.Compare(a, b) < 0
StringLess(a, b) ==
    \E i, j \in 1..Len(SortedStrings) :
        SortedStrings[i] = a /\ SortedStrings[j] = b /\ i < j

HasAnnotation(d, key) ==
    d.Annotations.set /\ \E p \in d.Annotations.val : p[1] = key

AnnotationOf(d, key) ==
    (CHOOSE p \in d.Annotations.val : p[1] = key)[2]

\* the request and entry operating systems the compatibility table pairs
OSCompat == {<<"darwin", "linux">>}

PlatformExact(req, p) == p = req

\* an entry for platform p can serve a request for platform req
PlatformCompatible(req, p) ==
    /\ p.Architecture = req.Architecture
    /\ \/ p.OS = req.OS
       \/ <<req.OS, p.OS>> \in OSCompat

\* the artifact type and annotation constraints of opt
PassesFilters(d, opt) ==
    /\ opt.ArtifactType # "" => d.ArtifactType = opt.ArtifactType
    /\ \A p \in opt.Annotations : d.Annotations.set /\ p \in d.Annotations.val

\* some entry of the list that has a platform can serve the request
AnyPlatformMatch(dl, req) ==
    \E i \in 1..Len(dl) :
        dl[i].Platform.set /\ PlatformCompatible(req, dl[i].Platform.val)

\* the entries that survive filtering, in list order
Filtered(dl, opt) ==
    LET cand == SelectSeq(dl, LAMBDA d : PassesFilters(d, opt))
        req == opt.Platform.val
        exact == SelectSeq(cand, LAMBDA d :
                     d.Platform.set /\ PlatformExact(req, d.Platform.val))
        compat == SelectSeq(cand, LAMBDA d :
                      d.Platform.set /\ PlatformCompatible(req, d.Platform.val))
        bare == SelectSeq(cand, LAMBDA d : ~d.Platform.set)
    IN  IF ~opt.Platform.set THEN cand
        ELSE IF exact # <<>> THEN exact
        ELSE IF compat # <<>> THEN compat
        ELSE IF AnyPlatformMatch(dl, req) THEN <<>>
        ELSE bare

\* a sorts before b on opt.SortAnnotation
SortsBefore(a, b, opt) ==
    /\ HasAnnotation(a, opt.SortAnnotation)
    /\ \/ ~HasAnnotation(b, opt.SortAnnotation)
       \/ IF opt.SortDesc
          THEN StringLess(AnnotationOf(b, opt.SortAnnotation),
                          AnnotationOf(a, opt.SortAnnotation))
          ELSE StringLess(AnnotationOf(a, opt.SortAnnotation),
                          AnnotationOf(b, opt.SortAnnotation))

ErrNotFound == Err("NotFound", "")

\* DescriptorListSearch(dl, opt): the results the search may return. With
\* a sort annotation that is any survivor no other survivor sorts before;
\* without one it is the first survivor.
DescriptorListSearch(dl, opt) ==
    LET surv == Filtered(dl, opt)
    IN  IF surv = <<>>
        THEN { [d |-> EmptyDescriptor, err |-> << ErrNotFound >>] }
        ELSE IF opt.SortAnnotation = ""
        THEN { [d |-> surv[1], err |-> <<>>] }
        ELSE { [d |-> surv[i], err |-> <<>>] :
                 i \in {k \in 1..Len(surv) :
                          \A j \in 1..Len(surv) : ~SortsBefore(surv[j], surv[k], opt)} }

SearchRow(name, dl, opt, expect, err) ==
    [name |-> name, dl |-> dl, opt |-> opt, expect |-> expect, err |-> err]

OptExampleArtifact == [EmptyMatchOpt EXCEPT !.ArtifactType = ExampleArtifact]

\* the table of TestListSearch
ListSearchRows ==
    { SearchRow("empty", <<>>, EmptyMatchOpt, EmptyDescriptor, "NotFound"),
      SearchRow("amd64", testDL,
                [EmptyMatchOpt EXCEPT !.Platform = PlatformOf("linux", "amd64")],
                dAMD64, ""),
      SearchRow("amd64 compat", testDL,
                [EmptyMatchOpt EXCEPT !.Platform = PlatformOf("darwin", "amd64")],
                dAMD64, ""),
      SearchRow("amd64 windows", testDL,
                [EmptyMatchOpt EXCEPT !.Platform = PlatformOf("windows", "amd64")],
                dAMD64Win, ""),
      SearchRow("amd64 annotations", testDL,
                [EmptyMatchOpt EXCEPT !.Platform = PlatformOf("linux", "amd64"),
                                      !.Annotations = {<<"runtime", "special runtime">>}],
                dAnnotations, ""),
      SearchRow("artifact missing", testDL,
                [OptExampleArtifact EXCEPT !.Platform = PlatformOf("linux", "amd64")],
                EmptyDescriptor, "NotFound"),
      SearchRow("artifact", testDL, OptExampleArtifact, dArtifact, ""),
      SearchRow("artifact sort", testDL,
                [OptExampleArtifact EXCEPT !.SortAnnotation = "date"], dArtifact, ""),
      SearchRow("artifact sort desc", testDL,
                [OptExampleArtifact EXCEPT !.SortAnnotation = "date", !.SortDesc = TRUE],
                dArtifact2, ""),
      SearchRow("artifact sort unset", testDL,
                [OptExampleArtifact EXCEPT !.SortAnnotation = "unique"], dArtifact2, ""),
      SearchRow("artifact sort unset desc", testDL,
                [OptExampleArtifact EXCEPT !.SortAnnotation = "unique", !.SortDesc = TRUE],
                dArtifact2, ""),
      SearchRow("artifact sort all unique desc", testDL,
                [EmptyMatchOpt EXCEPT !.SortAnnotation = "unique", !.SortDesc = TRUE],
                dArtifact2, "") }

\* the rows with the row called name expecting something else
WithRow(rows, name, expect, err) ==
    { IF row.name = name THEN [row EXCEPT !.expect = expect, !.err = err] ELSE row :
        row \in rows }

\* "amd64 compat" expecting the windows entry
TestListSearch_compatWindows == WithRow(ListSearchRows, "amd64 compat", dAMD64Win, "")

\* "artifact missing" expecting an artifact without a platform
TestListSearch_missingFound == WithRow(ListSearchRows, "artifact missing", dArtifact, "")

\* "empty" expecting a descriptor
TestListSearch_emptyFound == WithRow(ListSearchRows, "empty", EmptyDescriptor, "")

\* "artifact sort unset desc" expecting an entry without the annotation
TestListSearch_unsetFirst ==
    WithRow(ListSearchRows, "artifact sort unset desc", dArtifact, "")

\* "artifact" expecting the second of the three artifacts
TestListSearch_artifactSecond == WithRow(ListSearchRows, "artifact", dArtifact2, "")

TestListSearch == ListSearchRows

\* largest number of descriptors in a list searched
MaxList == 3

\* the entries lists are drawn from
SearchPool == testDL \o <<dAMD64Darwin>>

\* the entries of pool at the positions picked, in pool order
PickSeq(pool, picked) ==
    [i \in 1..Cardinality(picked) |->
        pool[CHOOSE x \in picked : Cardinality({y \in picked : y <= x}) = i]]

Reverse(seq) == [i \in 1..Len(seq) |-> seq[Len(seq) + 1 - i]]

\* the lists searched: up to MaxList entries, in pool order or reversed
SearchLists ==
    LET picks == {S \in SUBSET (1..Len(SearchPool)) : Cardinality(S) <= MaxList}
    IN  {PickSeq(SearchPool, S) : S \in picks}
        \cup {Reverse(PickSeq(SearchPool, S)) : S \in picks}

\* the options searched with
SearchOpts ==
    [Platform : {NoPlatform, PlatformOf("linux", "amd64"), PlatformOf("darwin", "amd64"),
                 PlatformOf("windows", "amd64")},
     Annotations : {{}, {<<"runtime", "special runtime">>}},
     ArtifactType : {"", ExampleArtifact},
     SortAnnotation : {"", "date", "unique"},
     SortDesc : BOOLEAN]

IdleSrch ==
    [pc |-> "idle", dl |-> <<>>, opt |-> EmptyMatchOpt, d |-> EmptyDescriptor,
     err |-> <<>>]

\* the annotation keys of a MatchOpt's map
Keys(annotations) == {p[1] : p \in annotations}

\* orig.Merge(changes)
Merge(orig, changes) ==
    [Platform |-> IF changes.Platform.set THEN changes.Platform ELSE orig.Platform,
     Annotations |-> {p \in orig.Annotations : p[1] \notin Keys(changes.Annotations)}
                         \cup changes.Annotations,
     ArtifactType |-> IF changes.ArtifactType # "" THEN changes.ArtifactType
                      ELSE orig.ArtifactType,
     SortAnnotation |-> IF changes.SortAnnotation # "" THEN changes.SortAnnotation
                        ELSE orig.SortAnnotation,
     SortDesc |-> IF changes.SortDesc THEN TRUE ELSE orig.SortDesc]

VndExampleArtifact == "application/vnd.example.artifact"

MergeRow(name, orig, changes, expect) ==
    [name |-> name, orig |-> orig, changes |-> changes, expect |-> expect]

\* the options TestMatchOptMerge builds up row by row
optArtifact == [EmptyMatchOpt EXCEPT !.ArtifactType = VndExampleArtifact]

optPlatform == [optArtifact EXCEPT !.Platform = PlatformOf("linux", "amd64")]

optAnnotations ==
    [optPlatform EXCEPT !.Annotations = {<<"annotation1", "value1">>,
                                          <<"annotation2", "value2">>}]

optSort == [optAnnotations EXCEPT !.SortAnnotation = "annotationSort", !.SortDesc = TRUE]

optThird ==
    [optSort EXCEPT !.Annotations = {<<"annotation1", "value1">>,
                                     <<"annotation2", "value2">>,
                                     <<"annotation3", "value3">>}]

\* the table of TestMatchOptMerge, given what "add third annotation" expects
MergeRows(thirdExpect) ==
    { MergeRow("empty", EmptyMatchOpt, EmptyMatchOpt, EmptyMatchOpt),
      MergeRow("new ArtifactType", EmptyMatchOpt, optArtifact, optArtifact),
      MergeRow("add Platform", optArtifact,
               [EmptyMatchOpt EXCEPT !.Platform = PlatformOf("linux", "amd64")],
               optPlatform),
      MergeRow("add Annotations", optPlatform,
               [EmptyMatchOpt EXCEPT !.Annotations = {<<"annotation1", "value1">>,
                                                       <<"annotation2", "value2">>}],
               optAnnotations),
      MergeRow("add SortAnnotation and desc", optAnnotations,
               [EmptyMatchOpt EXCEPT !.SortAnnotation = "annotationSort",
                                     !.SortDesc = TRUE],
               optSort),
      MergeRow("add third annotation", optSort,
               [EmptyMatchOpt EXCEPT !.Annotations = {<<"annotation3", "value3">>}],
               thirdExpect) }

\* the table with "add third annotation" expecting the new map alone
TestMatchOptMerge_thirdReplaces ==
    MergeRows([optSort EXCEPT !.Annotations = {<<"annotation3", "value3">>}])

TestMatchOptMerge == MergeRows(optThird)

\* largest number of successive Merge calls
MaxMerges == 2

\* the changes merged
MergeChanges ==
    [Platform : {NoPlatform, PlatformOf("linux", "amd64"), PlatformOf("linux", "arm64")},
     Annotations : { {}, {<<"annotation1", "value1">>, <<"annotation2", "value2">>},
                     {<<"annotation3", "value3">>}, {<<"annotation1", "value3">>} },
     ArtifactType : {"", VndExampleArtifact, ExampleArtifact},
     SortAnnotation : {"", "annotationSort"},
     SortDesc : BOOLEAN]

IdleMrg ==
    [pc |-> "idle", n |-> 0, orig |-> EmptyMatchOpt, changes |-> EmptyMatchOpt,
     result |-> EmptyMatchOpt]

----------------------------------------------------------------------------
(* Digest algorithm of a descriptor *)

\* a descriptor with the digest and no preferred algorithm
AlgoDescriptor(digest) == [Digest |-> digest, digAlgo |-> ""]

AlgoRow(name, d, setPref, expectSetErr, expectAlgo) ==
    [name |-> name, d |-> d, setPref |-> setPref, expectSetErr |-> expectSetErr,
     expectAlgo |-> expectAlgo]

\* the table of TestDigestAlgorithm, given the algorithm the row
\* "valid-sha256-prefer-512" expects
AlgoRows(validPreferExpect) ==
    { AlgoRow("empty", AlgoDescriptor(""), "", "", Canonical),
      AlgoRow("valid-sha256", AlgoDescriptor(dig256), "", "", SHA256),
      AlgoRow("valid-sha512", AlgoDescriptor(dig512), "", "", SHA512),
      AlgoRow("invalid-hash", AlgoDescriptor(digInvalidHash), "", "", Canonical),
      AlgoRow("invalid-format", AlgoDescriptor(digInvalidFormat), "", "", Canonical),
      AlgoRow("invalid-algorithm", AlgoDescriptor(digInvalidAlgorithm), "", "", Canonical),
      AlgoRow("empty-prefer-512", AlgoDescriptor(""), SHA512, "", SHA512),
      AlgoRow("valid-sha256-prefer-512", AlgoDescriptor(dig256), SHA512, "",
              validPreferExpect),
      AlgoRow("empty-set-invalid", AlgoDescriptor(""), "invalid", "Unsupported", Canonical),
      AlgoRow("invalid-hash-failed-set", AlgoDescriptor(digInvalidHash), "invalid",
              "Unsupported", Canonical) }

\* the table with "valid-sha256-prefer-512" expecting the preferred algorithm
TestDigestAlgorithm_preferWins == AlgoRows(SHA512)

TestDigestAlgorithm == AlgoRows(SHA256)

\* largest number of calls on one descriptor
MaxCalls == 3

\* the digests of the descriptors
AlgoDigests ==
    {"", dig256, dig512, digInvalidHash, digInvalidFormat, digInvalidAlgorithm}

\* the algorithms preferred
PreferredAlgorithms == {SHA256, SHA512, "invalid"}

IdleAlg == [pc |-> "idle", d |-> AlgoDescriptor(""), calls |-> <<>>]

----------------------------------------------------------------------------
(* Configurations *)

NoFilter == [Allow |-> <<>>, Deny |-> <<>>, SemverRange |-> ""]

Allow(p) == [Allow |-> <<p>>, Deny |-> <<>>, SemverRange |-> ""]

Semver(range) == [Allow |-> <<>>, Deny |-> <<>>, SemverRange |-> range]

Sync(target, tagSets, tags, exclude) ==
    [Target |-> target, TagSets |-> tagSets, Tags |-> tags,
     CleanupTagsExclude |-> exclude]

\* the sync rules a configuration is drawn from
SyncRules ==
    { Sync("r1", <<>>, Allow("^latest$"), <<>>),
      Sync("r1", <<>>, Allow("^v"), <<"^old$">>),
      Sync("r1", <<>>, NoFilter, <<"^old$", BadPattern>>),
      Sync("r1", << Semver(">=1.0.0") >>,
           [Allow |-> <<".*">>, Deny |-> <<"^v", "^latest$">>, SemverRange |-> ""],
           <<BadPattern, "^latest$">>),
      Sync("r1", <<>>, Allow(BadPattern), <<>>),
      Sync("r2", <<>>, NoFilter, <<>>),
      Sync("r2", << Allow("^old$") >>, NoFilter, <<"^v">>),
      Sync("r2", <<>>, Allow("^stable$"), <<"^v0\\.">>) }

Configs == UNION {[1..n -> SyncRules] : n \in 1..MaxSync}

\* the listing a registry returns for a repository's tags
ListingOf(tags) ==
    SelectSeq(SubSeq(TagNames, 1, NumTags), LAMBDA t : t \in tags)

----------------------------------------------------------------------------
(* State *)

Procs == {1, 2}

IdleInv ==
    [pc |-> "idle", s |-> 0, tgt |-> "", canceled |-> FALSE,
     tTagsList |-> <<>>, wantedTags |-> <<>>, allExclusionPatterns |-> <<>>,
     tagsToDelete |-> <<>>, idx |-> 0, errs |-> <<>>,
     calls |-> <<>>, resps |-> <<>>, ret |-> <<>>]

Init ==
    /\ conf \in Configs
    /\ \E tags \in SUBSET AllTags : repo = [r \in Targets |-> tags]
    /\ inv = [i \in Procs |-> IdleInv]
    /\ cmp = IdleCmp
    /\ get = IdleGet /\ srch = IdleSrch /\ mrg = IdleMrg /\ alg = IdleAlg

Return(i, err) ==
    inv' = [inv EXCEPT ![i].pc = "done", ![i].ret = err]

\* cleanupTags(ctx, s, tgt) is called: ref.New(tgt), then the TagList request
Start(i, s, tgt) ==
    /\ inv[i].pc = "idle"
    /\ IF tgt = InvalidTarget
       THEN inv' = [inv EXCEPT ![i].pc = "done", ![i].s = s, ![i].tgt = tgt,
                               ![i].ret = <<Err("InvalidRef", tgt)>>]
       ELSE inv' = [inv EXCEPT ![i].pc = "TagList", ![i].s = s, ![i].tgt = tgt]
    /\ UNCHANGED <<conf, repo, libVars>>

\* the registry answers TagList with an error (lines 69-74, 76-81)
TagListFails(i) ==
    /\ inv[i].pc = "TagList"
    /\ Return(i, <<Err("TagListFailed", inv[i].tgt)>>)
    /\ UNCHANGED <<conf, repo, libVars>>

\* the triggering rule s is added to the sync entries found for the target
TagListReturns_withTrigger(i) ==
    /\ inv[i].pc = "TagList"
    /\ LET tTagsList == ListingOf(repo[inv[i].tgt])
           syncEntries == IF conf[inv[i].s].Target = inv[i].tgt
                          THEN findSyncEntriesForTarget(inv[i].tgt)
                          ELSE <<conf[inv[i].s]>> \o findSyncEntriesForTarget(inv[i].tgt)
           w == BuildWanted(syncEntries, tTagsList)
           allExclusionPatterns == CollectExclusions(syncEntries)
           d == IdentifyDeletes(tTagsList, w.wantedTags, allExclusionPatterns, <<>>)
       IN  IF w.err # <<>>
           THEN inv' = [inv EXCEPT ![i].pc = "done", ![i].tTagsList = tTagsList,
                                   ![i].ret = w.err]
           ELSE IF d.err # <<>>
           THEN inv' = [inv EXCEPT ![i].pc = "done", ![i].tTagsList = tTagsList,
                                   ![i].wantedTags = w.wantedTags,
                                   ![i].allExclusionPatterns = allExclusionPatterns,
                                   ![i].ret = d.err]
           ELSE inv' = [inv EXCEPT ![i].pc = "DeleteLoop", ![i].tTagsList = tTagsList,
                                   ![i].wantedTags = w.wantedTags,
                                   ![i].allExclusionPatterns = allExclusionPatterns,
                                   ![i].tagsToDelete = d.tagsToDelete,
                                   ![i].idx = 1]
    /\ UNCHANGED <<conf, repo, libVars>>

\* the registry answers TagList; lines 84-162 run on the answer
TagListReturns(i) ==
    /\ inv[i].pc = "TagList"
    /\ LET tTagsList == ListingOf(repo[inv[i].tgt])
           syncEntries == findSyncEntriesForTarget(inv[i].tgt)
           w == BuildWanted(syncEntries, tTagsList)
           allExclusionPatterns == CollectExclusions(syncEntries)
           d == IdentifyDeletes(tTagsList, w.wantedTags, allExclusionPatterns, <<>>)
       IN  IF w.err # <<>>
           THEN inv' = [inv EXCEPT ![i].pc = "done", ![i].tTagsList = tTagsList,
                                   ![i].ret = w.err]
           ELSE IF d.err # <<>>
           THEN inv' = [inv EXCEPT ![i].pc = "done", ![i].tTagsList = tTagsList,
                                   ![i].wantedTags = w.wantedTags,
                                   ![i].allExclusionPatterns = allExclusionPatterns,
                                   ![i].ret = d.err]
           ELSE inv' = [inv EXCEPT ![i].pc = "DeleteLoop", ![i].tTagsList = tTagsList,
                                   ![i].wantedTags = w.wantedTags,
                                   ![i].allExclusionPatterns = allExclusionPatterns,
                                   ![i].tagsToDelete = d.tagsToDelete,
                                   ![i].idx = 1]
    /\ UNCHANGED <<conf, repo, libVars>>

\* the delete loop without its select on ctx.Done()
DeleteLoop_noCancelCheck(i) ==
    /\ inv[i].pc = "DeleteLoop"
    /\ IF inv[i].idx > Len(inv[i].tagsToDelete)
       THEN Return(i, inv[i].errs)
       ELSE inv' = [inv EXCEPT ![i].pc = "TagDelete",
                               ![i].calls = Append(@, inv[i].tagsToDelete[inv[i].idx])]
    /\ UNCHANGED <<conf, repo, libVars>>

\* the delete loop stops before the last scheduled tag
DeleteLoop_skipLast(i) ==
    /\ inv[i].pc = "DeleteLoop"
    /\ IF inv[i].idx >= Len(inv[i].tagsToDelete)
       THEN Return(i, inv[i].errs)
       ELSE IF inv[i].canceled
       THEN inv' = [inv EXCEPT ![i].pc = "done",
                               ![i].errs = Append(inv[i].errs, ErrCanceled),
                               ![i].ret = Append(inv[i].errs, ErrCanceled)]
       ELSE inv' = [inv EXCEPT ![i].pc = "TagDelete",
                               ![i].calls = Append(@, inv[i].tagsToDelete[inv[i].idx])]
    /\ UNCHANGED <<conf, repo, libVars>>

\* ctx.Done() is also checked after the last scheduled tag
DeleteLoop_checkAtEnd(i) ==
    /\ inv[i].pc = "DeleteLoop"
    /\ IF inv[i].canceled
       THEN inv' = [inv EXCEPT ![i].pc = "done",
                               ![i].errs = Append(inv[i].errs, ErrCanceled),
                               ![i].ret = Append(inv[i].errs, ErrCanceled)]
       ELSE IF inv[i].idx > Len(inv[i].tagsToDelete)
       THEN Return(i, inv[i].errs)
       ELSE inv' = [inv EXCEPT ![i].pc = "TagDelete",
                               ![i].calls = Append(@, inv[i].tagsToDelete[inv[i].idx])]
    /\ UNCHANGED <<conf, repo, libVars>>

\* the head of the delete loop (lines 166-180) and the return after it
DeleteLoop(i) ==
    /\ inv[i].pc = "DeleteLoop"
    /\ IF inv[i].idx > Len(inv[i].tagsToDelete)
       THEN Return(i, inv[i].errs)
       ELSE IF inv[i].canceled
       THEN inv' = [inv EXCEPT ![i].pc = "done",
                               ![i].errs = Append(inv[i].errs, ErrCanceled),
                               ![i].ret = Append(inv[i].errs, ErrCanceled)]
       ELSE inv' = [inv EXCEPT ![i].pc = "TagDelete",
                               ![i].calls = Append(@, inv[i].tagsToDelete[inv[i].idx])]
    /\ UNCHANGED <<conf, repo, libVars>>

\* the registry deletes the tag and answers TagDelete (lines 187-191)
TagDeleteSucceeds(i) ==
    /\ inv[i].pc = "TagDelete"
    /\ inv[i].tagsToDelete[inv[i].idx] \in repo[inv[i].tgt]
    /\ repo' = [repo EXCEPT ![inv[i].tgt] = @ \ {inv[i].tagsToDelete[inv[i].idx]}]
    /\ inv' = [inv EXCEPT ![i].pc = "DeleteLoop", ![i].idx = @ + 1,
                          ![i].resps = Append(@, "ok")]
    /\ UNCHANGED <<conf, libVars>>

\* a failed TagDelete returns its error at once
TagDeleteFails_abort(i) ==
    /\ inv[i].pc = "TagDelete"
    /\ inv' = [inv EXCEPT ![i].pc = "done",
                          ![i].resps = Append(@, "fail"),
                          ![i].errs = Append(@, Err("DeleteFailed",
                                                    inv[i].tagsToDelete[inv[i].idx])),
                          ![i].ret = Append(inv[i].errs, Err("DeleteFailed",
                                                    inv[i].tagsToDelete[inv[i].idx]))]
    /\ UNCHANGED <<conf, repo, libVars>>

\* errs is a variable the invocations share
TagDeleteFails_shared(i) ==
    /\ inv[i].pc = "TagDelete"
    /\ inv' = [j \in Procs |->
                 [inv[j] EXCEPT !.pc = IF j = i THEN "DeleteLoop" ELSE @,
                                !.idx = IF j = i THEN @ + 1 ELSE @,
                                !.resps = IF j = i THEN Append(@, "fail") ELSE @,
                                !.errs = Append(@, Err("DeleteFailed",
                                                inv[i].tagsToDelete[inv[i].idx]))]]
    /\ UNCHANGED <<conf, repo, libVars>>

\* a TagDelete error is logged and not collected
TagDeleteFails_ignored(i) ==
    /\ inv[i].pc = "TagDelete"
    /\ inv' = [inv EXCEPT ![i].pc = "DeleteLoop", ![i].idx = @ + 1,
                          ![i].resps = Append(@, "fail")]
    /\ UNCHANGED <<conf, repo, libVars>>

\* the registry answers TagDelete with an error (lines 181-186)
TagDeleteFails(i) ==
    /\ inv[i].pc = "TagDelete"
    /\ inv' = [inv EXCEPT ![i].pc = "DeleteLoop", ![i].idx = @ + 1,
                          ![i].resps = Append(@, "fail"),
                          ![i].errs = Append(@, Err("DeleteFailed",
                                                    inv[i].tagsToDelete[inv[i].idx]))]
    /\ UNCHANGED <<conf, repo, libVars>>

\* the caller cancels the invocation's context
Cancel(i) ==
    /\ inv[i].pc \in {"TagList", "DeleteLoop", "TagDelete"}
    /\ ~inv[i].canceled
    /\ inv' = [inv EXCEPT ![i].canceled = TRUE]
    /\ UNCHANGED <<conf, repo, libVars>>

\* one step of invocation i, or of its registry or caller
Step(i) ==
    \/ \E s \in 1..Len(conf), tgt \in Targets \cup {InvalidTarget} : Start(i, s, tgt)
    \/ TagListFails(i)
    \/ TagListReturns(i)
    \/ DeleteLoop(i)
    \/ TagDeleteSucceeds(i)
    \/ TagDeleteFails(i)
    \/ Cancel(i)

Next == Step(1)

Spec == Init /\ [][Next]_vars

(* Two invocations, for different target repositories, run in parallel *)

\* what the two repositories hold before the invocations
ParRepo == [r \in Targets |-> IF r = "r1" THEN AllTags ELSE AllTags \ {TagNames[1]}]

InitPar ==
    /\ conf \in Configs
    /\ repo = ParRepo
    /\ inv = [i \in Procs |-> IdleInv]
    /\ cmp = IdleCmp
    /\ get = IdleGet /\ srch = IdleSrch /\ mrg = IdleMrg /\ alg = IdleAlg

StepPar(i) ==
    \/ \E tgt \in Targets :
          /\ \A j \in Procs \ {i} : inv[j].tgt # tgt
          /\ Start(i, 1, tgt)
    \/ TagListFails(i)
    \/ TagListReturns(i)
    \/ DeleteLoop(i)
    \/ TagDeleteSucceeds(i)
    \/ TagDeleteFails(i)
    \/ Cancel(i)

NextPar == \E i \in Procs : StepPar(i)

SpecPar == InitPar /\ [][NextPar]_vars

(* Two invocations for one target repository, one after the other: the first
   for the target of the first sync rule, while other clients of the registry
   push tags; no context is cancelled *)

\* another client pushes tag t to the repository of an invocation while one
\* of the invocation's TagDelete requests is in flight
Push(i, t) ==
    /\ inv[i].pc = "TagDelete"
    /\ t \in AllTags \ repo[inv[i].tgt]
    /\ repo' = [repo EXCEPT ![inv[i].tgt] = @ \cup {t}]
    /\ UNCHANGED <<conf, inv, libVars>>

\* cleanupTags is called again for the target of the invocation that returned
StartAgain(i, s) ==
    /\ \A j \in Procs \ {i} : inv[j].pc = "done"
    /\ \E j \in Procs \ {i} : Start(i, s, inv[j].tgt)

NextSeq ==
    \/ Start(1, 1, conf[1].Target)
    \/ \E s \in 1..Len(conf) : StartAgain(2, s)
    \/ \E i \in Procs :
          \/ TagListFails(i)
          \/ TagListReturns(i)
          \/ DeleteLoop(i)
          \/ TagDeleteSucceeds(i)
          \/ TagDeleteFails(i)
    \/ \E t \in AllTags : Push(1, t)

SpecSeq == Init /\ [][NextSeq]_vars

(* Descriptor comparison *)

InitDescriptor ==
    /\ conf = <<>>
    /\ repo = [r \in Targets |-> {}]
    /\ inv = [i \in Procs |-> IdleInv]
    /\ get = IdleGet /\ srch = IdleSrch /\ mrg = IdleMrg /\ alg = IdleAlg
    /\ \E d1 \in FirstDescriptors, d2 \in Descriptors :
          cmp = [IdleCmp EXCEPT !.pc = "input", !.d1 = d1, !.d2 = d2]

\* d1.Equal(d2) and d1.Same(d2) are evaluated
Compare ==
    /\ cmp.pc = "input"
    /\ cmp' = [cmp EXCEPT !.pc = "done",
                          !.equal = Equal(cmp.d1, cmp.d2),
                          !.same = Same(cmp.d1, cmp.d2)]
    /\ UNCHANGED <<cleanupVars, get, srch, mrg, alg>>

NextDescriptor == Compare

SpecDescriptor == InitDescriptor /\ [][NextDescriptor]_vars

----------------------------------------------------------------------------
(* GetData *)

\* nothing of the cleanup runs
CleanupIdle ==
    /\ conf = <<>>
    /\ repo = [r \in Targets |-> {}]
    /\ inv = [i \in Procs |-> IdleInv]

\* a descriptor literal, or a JSON document still to be parsed
InitGetData ==
    /\ CleanupIdle
    /\ cmp = IdleCmp /\ srch = IdleSrch /\ mrg = IdleMrg /\ alg = IdleAlg
    /\ \/ \E d \in DataDescriptors : get = [IdleGet EXCEPT !.pc = "descriptor", !.d = d]
       \/ \E j \in DataJSONs : get = [IdleGet EXCEPT !.pc = "json", !.dJSON = j]

\* json.Unmarshal(dJSON, &desc): the test returns on an error
UnmarshalJSON ==
    /\ get.pc = "json"
    /\ LET r == Unmarshal(get.dJSON)
       IN  get' = IF r.err # <<>>
                  THEN [get EXCEPT !.pc = "failed", !.err = r.err]
                  ELSE [get EXCEPT !.pc = "descriptor", !.d = r.d]
    /\ UNCHANGED <<cleanupVars, cmp, srch, mrg, alg>>

\* out, err := d.GetData()
CallGetData ==
    /\ get.pc = "descriptor"
    /\ LET r == GetData(get.d)
       IN  get' = [get EXCEPT !.pc = "done", !.out = r.data, !.err = r.err]
    /\ UNCHANGED <<cleanupVars, cmp, srch, mrg, alg>>

NextGetData == UnmarshalJSON \/ CallGetData

SpecGetData == InitGetData /\ [][NextGetData]_vars

----------------------------------------------------------------------------
(* DescriptorListSearch *)

InitListSearch ==
    /\ CleanupIdle
    /\ cmp = IdleCmp /\ get = IdleGet /\ mrg = IdleMrg /\ alg = IdleAlg
    /\ \E dl \in SearchLists, opt \in SearchOpts :
          srch = [IdleSrch EXCEPT !.pc = "input", !.dl = dl, !.opt = opt]

\* result, err := DescriptorListSearch(dl, opt)
ListSearch ==
    /\ srch.pc = "input"
    /\ \E r \in DescriptorListSearch(srch.dl, srch.opt) :
          srch' = [srch EXCEPT !.pc = "done", !.d = r.d, !.err = r.err]
    /\ UNCHANGED <<cleanupVars, cmp, get, mrg, alg>>

NextListSearch == ListSearch

SpecListSearch == InitListSearch /\ [][NextListSearch]_vars

----------------------------------------------------------------------------
(* MatchOpt.Merge *)

InitMerge ==
    /\ CleanupIdle
    /\ cmp = IdleCmp /\ get = IdleGet /\ srch = IdleSrch /\ alg = IdleAlg
    /\ mrg = [IdleMrg EXCEPT !.pc = "run"]

\* result = result.Merge(changes)
CallMerge ==
    /\ mrg.pc = "run"
    /\ mrg.n < MaxMerges
    /\ \E changes \in MergeChanges :
          mrg' = [mrg EXCEPT !.n = @ + 1, !.orig = mrg.result, !.changes = changes,
                             !.result = Merge(mrg.result, changes)]
    /\ UNCHANGED <<cleanupVars, cmp, get, srch, alg>>

NextMerge == CallMerge

SpecMerge == InitMerge /\ [][NextMerge]_vars

----------------------------------------------------------------------------
(* DigestAlgoPrefer and DigestAlgo *)

InitDigestAlgo ==
    /\ CleanupIdle
    /\ cmp = IdleCmp /\ get = IdleGet /\ srch = IdleSrch /\ mrg = IdleMrg
    /\ \E dig \in AlgoDigests :
          alg = [IdleAlg EXCEPT !.pc = "run", !.d = AlgoDescriptor(dig)]

AlgoCall(op, arg, err, ret) == [op |-> op, arg |-> arg, err |-> err, ret |-> ret]

\* err := d.DigestAlgoPrefer(algo)
CallDigestAlgoPrefer ==
    /\ alg.pc = "run"
    /\ Len(alg.calls) < MaxCalls
    /\ \E algo \in PreferredAlgorithms :
          LET r == DigestAlgoPrefer(alg.d, algo)
          IN  alg' = [alg EXCEPT !.d = r.d,
                         !.calls = Append(@, AlgoCall("DigestAlgoPrefer", algo, r.err, ""))]
    /\ UNCHANGED <<cleanupVars, cmp, get, srch, mrg>>

\* algo := d.DigestAlgo()
CallDigestAlgo ==
    /\ alg.pc = "run"
    /\ Len(alg.calls) < MaxCalls
    /\ alg' = [alg EXCEPT
                 !.calls = Append(@, AlgoCall("DigestAlgo", "", <<>>, DigestAlgo(alg.d)))]
    /\ UNCHANGED <<cleanupVars, cmp, get, srch, mrg>>

NextDigestAlgo == CallDigestAlgoPrefer \/ CallDigestAlgo

SpecDigestAlgo == InitDigestAlgo /\ [][NextDigestAlgo]_vars

----------------------------------------------------------------------------
(* Vocabulary of the properties *)

Range(seq) == {seq[k] : k \in 1..Len(seq)}

\* the sync rules of the configuration whose target equals tgt
Siblings(tgt) == {j \in 1..Len(conf) : conf[j].Target = tgt}

\* a rule's filter sets: its tagSets, and its top-level filter when not empty
FilterSetsOf(rule) ==
    Range(rule.TagSets) \cup (IF rule.Tags = NoFilter THEN {} ELSE {rule.Tags})

\* the tags of a listing that survive the Tag Filter of a filter set
Survivors(set, listing) == Range(filterTagList(set, listing).tags)

\* the invocation got its tag listing
Listed(i) ==
    \/ inv[i].pc \in {"DeleteLoop", "TagDelete"}
    \/ /\ inv[i].pc = "done"
       /\ ~(inv[i].ret # <<>> /\ inv[i].ret[1].kind \in {"InvalidRef", "TagListFailed"})

\* the invocation reached the delete stage
Deleting(i) ==
    \/ inv[i].pc \in {"DeleteLoop", "TagDelete"}
    \/ /\ inv[i].pc = "done"
       /\ ~(inv[i].ret # <<>> /\ inv[i].ret[1].kind
                \in {"InvalidRef", "TagListFailed", "InvalidPattern"})

\* the failure entries of the answered TagDelete calls, in call order
FailuresOf(calls, resps) ==
    LET failed == SelectSeq([k \in 1..Len(resps) |-> k], LAMBDA k : resps[k] = "fail")
    IN  [n \in 1..Len(failed) |-> Err("DeleteFailed", calls[failed[n]])]

----------------------------------------------------------------------------
(* Properties *)

\* C1: cleanupTags never issues TagDelete for a tag that survives the Tag
\* Filter of a filter set of a sync rule whose target equals tgt.
C1_WantedNeverDeleted ==
    \A i \in Procs : \A t \in Range(inv[i].calls) :
        \A j \in Siblings(inv[i].tgt) : \A set \in FilterSetsOf(conf[j]) :
            t \notin Survivors(set, inv[i].tTagsList)

\* an invocation deleted a tag and kept one that only a sibling of the
\* triggering rule wants
C1_Witness ==
    \E i \in Procs :
        /\ inv[i].pc = "done"
        /\ inv[i].calls # <<>>
        /\ inv[i].s \in Siblings(inv[i].tgt)
        /\ \E j \in Siblings(inv[i].tgt) \ {inv[i].s} : \E t \in repo[inv[i].tgt] :
              /\ \E set \in FilterSetsOf(conf[j]) : t \in Survivors(set, inv[i].tTagsList)
              /\ \A set \in FilterSetsOf(conf[inv[i].s]) :
                    t \notin Survivors(set, inv[i].tTagsList)

\* C2: when no sync rule targeting tgt has a filter set, every listed tag is
\* wanted, no TagDelete is issued and the invocation returns success.
C2_NoFilterDeletesNothing ==
    \A i \in Procs :
        (Listed(i) /\ \A j \in Siblings(inv[i].tgt) : FilterSetsOf(conf[j]) = {})
        => /\ inv[i].wantedTags = inv[i].tTagsList
           /\ inv[i].tagsToDelete = <<>>
           /\ inv[i].calls = <<>>
           /\ inv[i].pc \in {"DeleteLoop", "done"}
           /\ inv[i].pc = "done" => inv[i].ret = <<>>

\* an unfiltered target with tags and a pattern that does not compile
C2_Witness ==
    \E i \in Procs :
        /\ inv[i].pc = "done"
        /\ inv[i].ret = <<>>
        /\ Siblings(inv[i].tgt) # {}
        /\ \A j \in Siblings(inv[i].tgt) : FilterSetsOf(conf[j]) = {}
        /\ Len(inv[i].tTagsList) = NumTags
        /\ BadPattern \in Range(inv[i].allExclusionPatterns)

\* C3: a tag that matches a cleanupTagsExclude pattern of any sync rule whose
\* target equals tgt is never passed to TagDelete.
C3_ExcludedNeverDeleted ==
    \A i \in Procs : \A t \in Range(inv[i].calls) :
        \A j \in Siblings(inv[i].tgt) : \A p \in Range(conf[j].CleanupTagsExclude) :
            Compiles(p) => ~Matches(p, t)

\* an unwanted tag kept only by the pattern of a sibling of the triggering rule
C3_Witness ==
    \E i \in Procs :
        /\ inv[i].pc = "done"
        /\ inv[i].ret = <<>>
        /\ inv[i].s \in Siblings(inv[i].tgt)
        /\ \E t \in Range(inv[i].tTagsList) :
              /\ ~Contains(inv[i].wantedTags, t)
              /\ t \in repo[inv[i].tgt]
              /\ \A p \in Range(conf[inv[i].s].CleanupTagsExclude) :
                    Compiles(p) /\ ~Matches(p, t)
              /\ \E j \in Siblings(inv[i].tgt) \ {inv[i].s} :
                    \E p \in Range(conf[j].CleanupTagsExclude) : Matches(p, t)

C5_CancelBeforeEachDelete ==
    [][\A i \in Procs :
        /\ ( /\ inv[i].pc = "DeleteLoop"
             /\ inv[i].canceled
             /\ inv[i].idx <= Len(inv[i].tagsToDelete)
             /\ inv'[i] # inv[i] )
           => /\ inv'[i].pc = "done"
              /\ inv'[i].calls = inv[i].calls
              /\ inv'[i].calls = SubSeq(inv[i].tagsToDelete, 1, inv[i].idx - 1)
              /\ inv'[i].ret = FailuresOf(inv[i].calls, inv[i].resps) \o <<ErrCanceled>>
              /\ repo' = repo
              /\ \A k \in 1..Len(inv[i].resps) :
                    inv[i].resps[k] = "ok" => inv[i].calls[k] \notin repo'[inv[i].tgt]
        /\ inv[i].pc = "done" => inv'[i] = inv[i]
        /\ (inv[i].pc = "TagDelete" /\ inv'[i].pc # "TagDelete")
           => /\ inv'[i].pc = "DeleteLoop"
              /\ Len(inv'[i].resps) = Len(inv[i].resps) + 1
    ]_vars

\* cancelled after a failed and a successful deletion, with a tag left
C5_Witness ==
    \E i \in Procs :
        /\ inv[i].pc = "done"
        /\ Len(inv[i].ret) = 2
        /\ inv[i].ret[2] = ErrCanceled
        /\ inv[i].resps = <<"fail", "ok">>
        /\ Len(inv[i].tagsToDelete) = 3

\* C6: a failed TagDelete does not stop the later ones; TagDelete is called
\* once per scheduled tag and the result holds one failure entry per failed
\* deletion, none for a deletion that succeeded.
C6_FailureIsolation ==
    \A i \in Procs :
        /\ Len(inv[i].calls) <= Len(inv[i].tagsToDelete)
        /\ inv[i].calls = SubSeq(inv[i].tagsToDelete, 1, Len(inv[i].calls))
        /\ (Deleting(i) /\ inv[i].pc = "done" /\ ~Contains(inv[i].ret, ErrCanceled))
           => /\ inv[i].calls = inv[i].tagsToDelete
              /\ Len(inv[i].resps) = Len(inv[i].calls)
              /\ inv[i].ret = FailuresOf(inv[i].calls, inv[i].resps)

\* the first deletion failed, the later ones were still made
C6_Witness ==
    \E i \in Procs :
        /\ inv[i].pc = "done"
        /\ inv[i].resps = <<"fail", "ok", "fail">>
        /\ Len(inv[i].ret) = 2

\* C7: when listing the tags fails, or the Tag Filter fails for a filter set
\* of a sibling rule, cleanupTags returns that error, has issued no TagDelete
\* and leaves the repository's tags as they were.
C7_FailFast ==
    \A i \in Procs :
        /\ (inv[i].pc = "done" /\ inv[i].ret # <<>> /\ inv[i].ret[1].kind = "TagListFailed")
           => inv[i].calls = <<>> /\ inv[i].resps = <<>>
        /\ (Listed(i) /\ \E j \in Siblings(inv[i].tgt) : \E set \in FilterSetsOf(conf[j]) :
                             filterTagList(set, inv[i].tTagsList).err # <<>>)
           => /\ inv[i].pc = "done"
              /\ \E j \in Siblings(inv[i].tgt) : \E set \in FilterSetsOf(conf[j]) :
                    /\ filterTagList(set, inv[i].tTagsList).err # <<>>
                    /\ inv[i].ret = filterTagList(set, inv[i].tTagsList).err
              /\ inv[i].calls = <<>>
              /\ ListingOf(repo[inv[i].tgt]) = inv[i].tTagsList

\* a filter of the second sibling fails after the first sibling's filter
\* found wanted tags, with unwanted tags in the listing
C7_Witness ==
    \E i \in Procs :
        /\ inv[i].pc = "done"
        /\ inv[i].ret = <<Err("InvalidPattern", BadPattern)>>
        /\ Len(inv[i].tTagsList) = NumTags
        /\ Len(conf) >= 2
        /\ conf[1].Target = inv[i].tgt
        /\ \A set \in FilterSetsOf(conf[1]) :
              /\ filterTagList(set, inv[i].tTagsList).err = <<>>
              /\ Survivors(set, inv[i].tTagsList) # Range(inv[i].tTagsList)
        /\ FilterSetsOf(conf[1]) # {}

\* C8 (as claimed): a pattern of the combined exclusion list that does not
\* compile always aborts the cleanup with the compile error naming it, and
\* nothing is deleted.
C8_BadExclusionAlwaysAborts ==
    \A i \in Procs :
        ( /\ Deleting(i)
          /\ \E j \in Siblings(inv[i].tgt) : \E p \in Range(conf[j].CleanupTagsExclude) :
                ~Compiles(p) )
        => /\ inv[i].pc = "done"
           /\ \E j \in Siblings(inv[i].tgt) : \E p \in Range(conf[j].CleanupTagsExclude) :
                 ~Compiles(p) /\ inv[i].ret = <<Err("InvalidPattern", p)>>
           /\ inv[i].calls = <<>>

\* what an invocation for tgt wants of a listing when it runs alone
AloneWanted(tgt, listing) ==
    IF \A j \in Siblings(tgt) : FilterSetsOf(conf[j]) = {}
    THEN Range(listing)
    ELSE UNION {Survivors(set, listing) :
                    set \in UNION {FilterSetsOf(conf[j]) : j \in Siblings(tgt)}}

\* the patterns of the sync rules whose target equals tgt
PooledPatterns(tgt) ==
    UNION {Range(conf[j].CleanupTagsExclude) : j \in Siblings(tgt)}

\* the deletions an invocation for tgt schedules when it runs alone
AloneSchedule(tgt, listing) ==
    SelectSeq(listing, LAMBDA t :
        /\ t \notin AloneWanted(tgt, listing)
        /\ \A p \in PooledPatterns(tgt) : ~(Compiles(p) /\ Matches(p, t)))

\* the patterns of the filters and exclusions of the rules whose target is tgt
OwnPatterns(tgt) ==
    PooledPatterns(tgt) \cup
    UNION {Range(set.Allow) \cup Range(set.Deny) :
               set \in UNION {FilterSetsOf(conf[j]) : j \in Siblings(tgt)}}

\* C9: two invocations for different target repositories share no state: in
\* every interleaving each one lists its own repository, schedules, calls
\* and returns what it would alone, and changes only its own repository.
C9_ParallelTargetsIndependent ==
    /\ [](\A i \in Procs :
            /\ Listed(i) => inv[i].tTagsList = ListingOf(ParRepo[inv[i].tgt])
            /\ Deleting(i) =>
                  inv[i].tagsToDelete = AloneSchedule(inv[i].tgt, inv[i].tTagsList)
            /\ inv[i].calls = SubSeq(inv[i].tagsToDelete, 1, Len(inv[i].calls))
            /\ inv[i].errs \in {FailuresOf(inv[i].calls, inv[i].resps),
                                FailuresOf(inv[i].calls, inv[i].resps) \o <<ErrCanceled>>}
            /\ (inv[i].pc = "done" /\ Deleting(i)) =>
                  inv[i].ret = FailuresOf(inv[i].calls, inv[i].resps) \o
                      (IF Len(inv[i].calls) < Len(inv[i].tagsToDelete)
                       THEN <<ErrCanceled>> ELSE <<>>)
            /\ (inv[i].pc = "done" /\ Listed(i) /\ ~Deleting(i)) =>
                  \E p \in OwnPatterns(inv[i].tgt) :
                      ~Compiles(p) /\ inv[i].ret = <<Err("InvalidPattern", p)>>)
    /\ [](\A r \in Targets :
            repo[r] = ParRepo[r] \ {t \in AllTags : \E i \in Procs :
                          /\ inv[i].tgt = r
                          /\ \E k \in 1..Len(inv[i].resps) :
                                inv[i].resps[k] = "ok" /\ inv[i].calls[k] = t})
    /\ [][\A i \in Procs : inv'[i] # inv[i] =>
             \A j \in Procs \ {i} : inv'[j] = inv[j]]_vars

\* both invocations have a second deletion in flight at once
C9_Witness ==
    /\ \A i \in Procs : inv[i].pc = "TagDelete" /\ Len(inv[i].calls) = 2
    /\ inv[1].tgt # inv[2].tgt
    /\ inv[1].resps = <<"fail">>
    /\ inv[2].resps = <<"ok">>

\* the two media types frame the same kind of content
SameFraming(a, b) ==
    \/ a = b
    \/ {a, b} \subseteq {Docker2Manifest, OCI1Manifest}
    \/ {a, b} \subseteq {Docker2ManifestList, OCI1ManifestList}

\* C10 (as claimed): Same(a, b) holds exactly when digest and size agree.
C10_SameIsDigestAndSize ==
    cmp.pc = "done" =>
        (cmp.same <=> (cmp.d1.Digest = cmp.d2.Digest /\ cmp.d1.Size = cmp.d2.Size))

\* C10 (amended): Same(a, b) holds exactly when digest and size agree and the
\* media types are equal or the Docker and OCI forms of one kind; no other
\* field affects it. Changing only the media type breaks Equal and keeps
\* Same only within a kind; changing digest or size breaks both. The rows of
\* TestCompare give these results.
C10_SameIsDigestSizeAndFraming ==
    /\ \A row \in TestCompare :
          /\ Same(row.d1, row.d2) = row.expectSame
          /\ Equal(row.d1, row.d2) = row.expectEqual
    /\ cmp.pc = "done" =>
          /\ cmp.same <=> /\ cmp.d1.Digest = cmp.d2.Digest
                          /\ cmp.d1.Size = cmp.d2.Size
                          /\ SameFraming(cmp.d1.MediaType, cmp.d2.MediaType)
          /\ cmp.d1.MediaType # cmp.d2.MediaType => ~cmp.equal
          /\ (cmp.d1.Digest # cmp.d2.Digest \/ cmp.d1.Size # cmp.d2.Size)
                => ~cmp.equal /\ ~cmp.same

\* a Docker manifest and its OCI form, alike in every other field
C10_Witness ==
    /\ cmp.pc = "done"
    /\ cmp.d1.MediaType = Docker2Manifest
    /\ cmp.d2 = [cmp.d1 EXCEPT !.MediaType = OCI1Manifest]
    /\ cmp.d1.Annotations # Nil
    /\ cmp.same
    /\ ~cmp.equal

----------------------------------------------------------------------------
(* Equal and Same over the optional fields *)

\* the fields Same does not read
OptionalFields == {"Annotations", "URLs", "Platform", "ArtifactType"}

\* d without its optional fields
Stripped(d) ==
    [d EXCEPT !.Annotations = Nil, !.URLs = Nil, !.Platform = NoPlatform,
              !.ArtifactType = ""]

\* C11: with equal digest and size, Same holds between a Docker manifest
\* and an OCI manifest (the two schemas' forms of one kind) and fails
\* between a Docker manifest and a Docker manifest list (two kinds); Equal
\* fails for both pairs. The rows "converting OCI media type" and
\* "different media type" of TestCompare expect these results.
C11_SameByFramingKind ==
    /\ \A row \in TestCompare :
          row.name \in {"converting OCI media type", "different media type"} =>
              /\ Same(row.d1, row.d2) = row.expectSame
              /\ Equal(row.d1, row.d2) = row.expectEqual
    /\ (cmp.pc = "done" /\ cmp.d1.Digest = cmp.d2.Digest /\ cmp.d1.Size = cmp.d2.Size) =>
          /\ {cmp.d1.MediaType, cmp.d2.MediaType} = {Docker2Manifest, OCI1Manifest}
                => cmp.same /\ ~cmp.equal
          /\ {cmp.d1.MediaType, cmp.d2.MediaType} = {Docker2Manifest, Docker2ManifestList}
                => ~cmp.same /\ ~cmp.equal

\* a Docker manifest and a Docker manifest list, alike in every other field
C11_Witness ==
    /\ cmp.pc = "done"
    /\ cmp.d1.MediaType = Docker2Manifest
    /\ cmp.d2 = [cmp.d1 EXCEPT !.MediaType = Docker2ManifestList]
    /\ cmp.d1.Platform # NoPlatform
    /\ ~cmp.same
    /\ ~cmp.equal

\* C12: Equal(a, b) implies Same(a, b); some descriptors are Same and not
\* Equal; a descriptor, the empty one included, is Equal to and Same as
\* itself. No row of TestCompare expects Equal without Same, and the
\* relations give every row the result it expects.
C12_EqualImpliesSame ==
    /\ \A row \in TestCompare \cup TestCompareFields :
          /\ Equal(row.d1, row.d2) = row.expectEqual
          /\ Same(row.d1, row.d2) = row.expectSame
          /\ row.expectEqual => row.expectSame
    /\ \E row \in TestCompare \cup TestCompareFields :
          Same(row.d1, row.d2) /\ ~Equal(row.d1, row.d2)
    /\ Equal(EmptyDescriptor, EmptyDescriptor) /\ Same(EmptyDescriptor, EmptyDescriptor)
    /\ cmp.pc = "done" =>
          /\ cmp.equal => cmp.same
          /\ cmp.d1 = cmp.d2 => cmp.equal /\ cmp.same

\* two Equal descriptors with every optional field set
C12_Witness ==
    /\ cmp.pc = "done"
    /\ cmp.equal
    /\ cmp.same
    /\ cmp.d1.Annotations # Nil /\ cmp.d1.URLs # Nil
    /\ cmp.d1.Platform # NoPlatform /\ cmp.d1.ArtifactType # ""

\* C13: descriptors that differ in annotations, urls, platform or artifact
\* type (two values, or a value against a missing field) are not Equal; an
\* annotation map equals the same map written in another order; the
\* optional fields do not affect Same, which holds between such
\* descriptors when digest, size and media type agree. The rows of
\* TestCompare that vary these fields expect these results.
C13_EqualComparesEveryField ==
    /\ \A row \in TestCompareFields :
          /\ Equal(row.d1, row.d2) = row.expectEqual
          /\ Same(row.d1, row.d2) = row.expectSame
    /\ cmp.pc = "done" =>
          /\ (\E f \in OptionalFields : cmp.d1[f] # cmp.d2[f]) => ~cmp.equal
          /\ cmp.same <=> Same(Stripped(cmp.d1), Stripped(cmp.d2))
          /\ ( /\ cmp.d1.Digest = cmp.d2.Digest
               /\ cmp.d1.Size = cmp.d2.Size
               /\ cmp.d1.MediaType = cmp.d2.MediaType ) => cmp.same

\* urls against no urls, and two different platforms: Same and not Equal
C13_Witness ==
    /\ cmp.pc = "done"
    /\ cmp.d1.URLs # Nil /\ cmp.d2.URLs = Nil
    /\ cmp.d1.Platform # NoPlatform /\ cmp.d2.Platform # NoPlatform
    /\ cmp.d1.Platform # cmp.d2.Platform
    /\ cmp.d1.Annotations = cmp.d2.Annotations
    /\ cmp.same
    /\ ~cmp.equal

----------------------------------------------------------------------------
(* GetData verifies the inline data *)

\* the descriptor carries data of its size that hashes to its digest under
\* the digest's own algorithm
WellFormed(d) ==
    /\ d.Data # NoData
    /\ DataLen(d.Data) = d.Size
    /\ SplitDigest(d.Digest).algo \in {SHA256, SHA512}
    /\ FromBytes(SplitDigest(d.Digest).algo, d.Data) = d.Digest

\* the error a table row wants: none, or one error of the kind
WantErr(kind) == IF kind = "" THEN <<>> ELSE << Err(kind, "") >>

\* the error is the one the row wants (errors.Is, or the same message)
IsWanted(err, kind) ==
    IF kind = "" THEN err = <<>> ELSE Len(err) = 1 /\ err[1].kind = kind

\* C14: GetData returns the inline data, with no error, exactly when the
\* data is present, as long as size says and hashes to digest under the
\* algorithm of that digest; in every other case it returns no data and
\* the one error ParsingFailed. The rows of TestGetDataDescriptor and of
\* TestGetDataJSON get the data or the error they want.
C14_GetDataVerifies ==
    /\ \A row \in TestGetDataDescriptor :
          /\ IsWanted(GetData(row.d).err, row.wantErr)
          /\ GetData(row.d).data = row.wantData
    /\ \A row \in TestGetDataJSON :
          LET u == Unmarshal(row.dJSON)
          IN  IF u.err # <<>> THEN IsWanted(u.err, row.wantErr)
              ELSE /\ IsWanted(GetData(u.d).err, row.wantErr)
                   /\ GetData(u.d).data = row.wantData
    /\ get.pc = "done" =>
          IF WellFormed(get.d)
          THEN get.err = <<>> /\ get.out = get.d.Data
          ELSE get.err = << ErrParsingFailed >> /\ get.out = NoData

\* data parsed from JSON, verified against a SHA-512 digest and returned
C14_Witness ==
    /\ get.pc = "done"
    /\ get.dJSON.data = Base64Example
    /\ get.d.Digest = digData512
    /\ get.err = <<>>
    /\ get.out = ExampleData

----------------------------------------------------------------------------
(* DescriptorListSearch *)

\* the search gives the row the descriptor or the error it expects
SearchConforms(row) ==
    DescriptorListSearch(row.dl, row.opt) = {[d |-> row.expect, err |-> WantErr(row.err)]}

\* an entry that passes the artifact type and annotation constraints and
\* has exactly the platform asked for
ExactCandidate(dl, opt) ==
    \E i \in 1..Len(dl) :
        /\ PassesFilters(dl[i], opt)
        /\ dl[i].Platform = opt.Platform

OnlyPlatform(os, arch) == [EmptyMatchOpt EXCEPT !.Platform = PlatformOf(os, arch)]

\* C15: with opt.platform set, a result that has a platform is compatible
\* with the request, and it has exactly the requested platform whenever
\* some candidate has: the compatibility table decides only when no
\* candidate matches exactly. Over a list with a linux/amd64 and a
\* windows/amd64 entry (and no darwin one) a darwin/amd64 request returns a
\* linux/amd64 entry and a windows/amd64 request the windows entry, as the
\* rows "amd64 compat" and "amd64 windows" of TestListSearch expect.
C15_ExactOutranksCompatible ==
    /\ \A row \in TestListSearch :
          row.name \in {"amd64 compat", "amd64 windows"} => SearchConforms(row)
    /\ (srch.pc = "done" /\ srch.opt.Platform.set /\ srch.err = <<>>
            /\ srch.d.Platform.set) =>
          /\ PlatformCompatible(srch.opt.Platform.val, srch.d.Platform.val)
          /\ ExactCandidate(srch.dl, srch.opt) => srch.d.Platform = srch.opt.Platform
    /\ (srch.pc = "done" /\ dAMD64 \in Range(srch.dl) /\ dAMD64Win \in Range(srch.dl)
            /\ dAMD64Darwin \notin Range(srch.dl)) =>
          /\ srch.opt = OnlyPlatform("darwin", "amd64")
                => srch.err = <<>> /\ srch.d.Platform = PlatformOf("linux", "amd64")
          /\ srch.opt = OnlyPlatform("windows", "amd64")
                => srch.err = <<>> /\ srch.d = dAMD64Win

\* a darwin entry listed after a linux one is returned for a darwin request
C15_Witness ==
    /\ srch.pc = "done"
    /\ srch.opt = OnlyPlatform("darwin", "amd64")
    /\ Len(srch.dl) >= 2
    /\ srch.dl[1] = dAMD64
    /\ dAMD64Darwin \in Range(srch.dl)
    /\ srch.d = dAMD64Darwin

\* the entries without a platform that pass the other constraints
BareCandidates(dl, opt) ==
    {i \in 1..Len(dl) : ~dl[i].Platform.set /\ PassesFilters(dl[i], opt)}

PlatformOK(d, opt) ==
    opt.Platform.set =>
        d.Platform.set /\ PlatformCompatible(opt.Platform.val, d.Platform.val)

\* d has no platform and no entry of dl with a platform serves the request
RetainedBare(d, dl, opt) ==
    /\ opt.Platform.set
    /\ ~d.Platform.set
    /\ ~AnyPlatformMatch(dl, opt.Platform.val)

C18_SortAnnotationOrders ==
    /\ \A row \in TestListSearch :
          row.opt.SortAnnotation # "" => SearchConforms(row)
    /\ (srch.pc = "done" /\ srch.err = <<>> /\ srch.opt.SortAnnotation # "") =>
          LET key == srch.opt.SortAnnotation
              surv == Filtered(srch.dl, srch.opt)
              having == {i \in 1..Len(surv) : HasAnnotation(surv[i], key)}
          IN  having # {} =>
                /\ HasAnnotation(srch.d, key)
                /\ \A i \in having :
                      IF srch.opt.SortDesc
                      THEN ~StringLess(AnnotationOf(srch.d, key), AnnotationOf(surv[i], key))
                      ELSE ~StringLess(AnnotationOf(surv[i], key), AnnotationOf(srch.d, key))

\* sorting by date, descending: the latest entry is returned ahead of an
\* earlier one and of an entry without a date that is listed first
C18_Witness ==
    /\ srch.pc = "done"
    /\ srch.dl = <<dAMD64, dAnnotations, dAnnotations2>>
    /\ srch.opt = [EmptyMatchOpt EXCEPT !.SortAnnotation = "date", !.SortDesc = TRUE]
    /\ srch.d = dAnnotations2

----------------------------------------------------------------------------
(* MatchOpt.Merge *)

\* C19: the result of Merge has the artifact type, platform and sort
\* annotation of changes where changes sets them and those of the base
\* otherwise, sorts descending when either does, and maps every
\* annotation key of either map, to the value changes gives it when
\* changes has the key and to the base's otherwise. Merging an empty
\* MatchOpt returns the base, and a setting of an earlier Merge stays
\* until a later one sets the field again. The rows of TestMatchOptMerge
\* expect these results.
C19_MergeOverridesFieldwise ==
    /\ \A row \in TestMatchOptMerge : Merge(row.orig, row.changes) = row.expect
    /\ mrg.n > 0 =>
          /\ \A f \in {"ArtifactType", "SortAnnotation"} :
                mrg.result[f] = IF mrg.changes[f] # "" THEN mrg.changes[f] ELSE mrg.orig[f]
          /\ mrg.result.Platform =
                IF mrg.changes.Platform # NoPlatform THEN mrg.changes.Platform
                ELSE mrg.orig.Platform
          /\ mrg.result.SortDesc = (mrg.changes.SortDesc \/ mrg.orig.SortDesc)
          /\ Keys(mrg.result.Annotations) =
                Keys(mrg.orig.Annotations) \cup Keys(mrg.changes.Annotations)
          /\ Cardinality(Keys(mrg.result.Annotations)) = Cardinality(mrg.result.Annotations)
          /\ \A p \in mrg.result.Annotations :
                IF p[1] \in Keys(mrg.changes.Annotations)
                THEN p \in mrg.changes.Annotations
                ELSE p \in mrg.orig.Annotations
          /\ mrg.changes = EmptyMatchOpt => mrg.result = mrg.orig

\* a second Merge that changes the value of annotation1 and the artifact
\* type and keeps annotation2 and the platform of the first
C19_Witness ==
    /\ mrg.n = 2
    /\ mrg.orig.Annotations = {<<"annotation1", "value1">>, <<"annotation2", "value2">>}
    /\ mrg.orig.Platform = PlatformOf("linux", "amd64")
    /\ mrg.orig.ArtifactType = VndExampleArtifact
    /\ mrg.changes.Annotations = {<<"annotation1", "value3">>}
    /\ mrg.changes.Platform = NoPlatform
    /\ mrg.changes.ArtifactType = ExampleArtifact
    /\ mrg.result.Annotations = {<<"annotation1", "value3">>, <<"annotation2", "value2">>}
    /\ mrg.result.Platform = PlatformOf("linux", "amd64")
    /\ mrg.result.ArtifactType = ExampleArtifact

----------------------------------------------------------------------------
(* DigestAlgo *)

\* the algorithm the last successful DigestAlgoPrefer among the first n
\* calls preferred ("" when there is none)
RECURSIVE PreferredAfter(_, _)
PreferredAfter(calls, n) ==
    IF n = 0 THEN ""
    ELSE IF calls[n].op = "DigestAlgoPrefer" /\ calls[n].err = <<>> THEN calls[n].arg
    ELSE PreferredAfter(calls, n - 1)

\* the row's DigestAlgoPrefer call, when it makes one, and its DigestAlgo
\* call give the error and the algorithm the row expects
AlgoConforms(row) ==
    LET r == IF row.setPref # "" THEN DigestAlgoPrefer(row.d, row.setPref)
             ELSE [d |-> row.d, err |-> <<>>]
    IN  /\ IsWanted(r.err, row.expectSetErr)
        /\ DigestAlgo(r.d) = row.expectAlgo

\* C20: DigestAlgo returns the algorithm of the descriptor's digest when
\* the digest is valid, whatever was preferred; otherwise the algorithm of
\* the last successful DigestAlgoPrefer, and SHA-256 when there was none.
\* DigestAlgoPrefer fails, with the one error Unsupported, exactly when
\* the algorithm is not registered, and DigestAlgo returns the same
\* before and after a failed call. The rows of TestDigestAlgorithm expect
\* these results.
C20_DigestAlgoResolution ==
    /\ \A row \in TestDigestAlgorithm : AlgoConforms(row)
    /\ \A n \in 1..Len(alg.calls) :
          LET c == alg.calls[n]
              pref == PreferredAfter(alg.calls, n - 1)
          IN  /\ c.op = "DigestAlgo" =>
                    c.ret = CASE alg.d.Digest = dig256 -> SHA256
                              [] alg.d.Digest = dig512 -> SHA512
                              [] pref # ""             -> pref
                              [] OTHER                 -> SHA256
              /\ c.op = "DigestAlgoPrefer" =>
                    c.err = IF c.arg \in {SHA256, SHA512} THEN <<>>
                            ELSE << Err("Unsupported", c.arg) >>
              /\ ( /\ c.op = "DigestAlgoPrefer" /\ c.err # <<>>
                   /\ 1 < n /\ n < Len(alg.calls)
                   /\ alg.calls[n - 1].op = "DigestAlgo"
                   /\ alg.calls[n + 1].op = "DigestAlgo" ) =>
                    alg.calls[n + 1].ret = alg.calls[n - 1].ret

\* a descriptor with a digest of the wrong length resolves to SHA-256
\* before and after preferring an unregistered algorithm fails
C20_Witness ==
    /\ alg.d.Digest = digInvalidHash
    /\ Len(alg.calls) = 3
    /\ alg.calls[1].op = "DigestAlgo" /\ alg.calls[1].ret = SHA256
    /\ alg.calls[2].op = "DigestAlgoPrefer" /\ alg.calls[2].arg = "invalid"
    /\ alg.calls[2].err # <<>>
    /\ alg.calls[3].op = "DigestAlgo" /\ alg.calls[3].ret = SHA256

----------------------------------------------------------------------------
(* The deletion schedule and the invocations of one target *)

\* the place of a tag in a listing
PosIn(listing, t) == CHOOSE k \in 1..Len(listing) : listing[k] = t

\* the tags of a listing that are neither wanted nor matched by a pattern
Unprotected(listing, wantedTags, patterns) ==
    SelectSeq(listing, LAMBDA t :
        /\ ~Contains(wantedTags, t)
        /\ \A p \in Range(patterns) : ~(Compiles(p) /\ Matches(p, t)))

\* C21: the deletion schedule is the subsequence of the listed tags, in
\* listing order, that are not in wantedTags and match no pattern of the
\* combined exclusion list; TagDelete is called only for the tags of the
\* schedule, in its order, the failures are collected in listing order, and
\* a tag that is not in the listing the invocation got, such as one pushed
\* afterwards, is never removed.
C21_ScheduleIsListingSubsequence ==
    /\ [](\A i \in Procs :
            /\ Deleting(i) =>
                  inv[i].tagsToDelete =
                      Unprotected(inv[i].tTagsList, inv[i].wantedTags,
                                  inv[i].allExclusionPatterns)
            /\ inv[i].calls = SubSeq(inv[i].tagsToDelete, 1, Len(inv[i].calls))
            /\ Range(inv[i].calls) \subseteq Range(inv[i].tTagsList)
            /\ inv[i].errs \in {FailuresOf(inv[i].calls, inv[i].resps),
                                FailuresOf(inv[i].calls, inv[i].resps) \o <<ErrCanceled>>}
            /\ \A a, b \in 1..Len(FailuresOf(inv[i].calls, inv[i].resps)) :
                  a < b => PosIn(inv[i].tTagsList, inv[i].errs[a].arg)
                              < PosIn(inv[i].tTagsList, inv[i].errs[b].arg))
    /\ [][\A r \in Targets : \A t \in repo[r] \ repo'[r] :
             \E i \in Procs :
                 /\ inv[i].tgt = r
                 /\ inv[i].pc = "TagDelete"
                 /\ inv[i].tagsToDelete[inv[i].idx] = t
                 /\ t \in Range(inv[i].tTagsList)]_vars

\* the first invocation failed to delete one tag and deleted another; a tag
\* pushed after its listing, which no filter wants and no pattern excludes,
\* is still in the repository when it has returned
C21_Witness ==
    /\ inv[1].pc = "done"
    /\ inv[1].resps = <<"fail", "ok">>
    /\ Len(inv[1].ret) = 1
    /\ \E t \in repo[inv[1].tgt] \ Range(inv[1].tTagsList) :
          AloneSchedule(inv[1].tgt, <<t>>) = <<t>>

----------------------------------------------------------------------------
(* Ties between the survivors of a search *)

FilterUnion(tgt, listing) ==
    UNION {Survivors(set, listing) :
               set \in UNION {FilterSetsOf(conf[j]) : j \in Siblings(tgt)}}

C24_TriggeringRuleIrrelevant ==
    \A i, j \in Procs :
        ( /\ Listed(i) /\ Listed(j)
          /\ inv[i].tgt = inv[j].tgt
          /\ inv[i].tTagsList = inv[j].tTagsList )
        => /\ inv[i].wantedTags = inv[j].wantedTags
           /\ inv[i].allExclusionPatterns = inv[j].allExclusionPatterns
           /\ inv[i].tagsToDelete = inv[j].tagsToDelete
           /\ Deleting(i) <=> Deleting(j)
           /\ ~Deleting(i) => inv[i].ret = inv[j].ret
           /\ \A k \in 1..Len(inv[i].calls) :
                 k <= Len(inv[j].calls) => inv[i].calls[k] = inv[j].calls[k]
           /\ (inv[i].pc = "done" /\ inv[j].pc = "done" /\ inv[i].resps = inv[j].resps)
                 => inv[i].calls = inv[j].calls /\ inv[i].ret = inv[j].ret

\* two invocations with different triggering rules, the second of a rule
\* for another repository, got the same listing of three tags and the same
\* answers, a success then a failure, and returned the same failure
C24_Witness ==
    /\ inv[1].pc = "done" /\ inv[2].pc = "done"
    /\ inv[1].s # inv[2].s
    /\ conf[inv[2].s].Target # inv[2].tgt
    /\ inv[1].tTagsList = inv[2].tTagsList
    /\ Len(inv[1].tTagsList) = NumTags
    /\ inv[1].resps = <<"ok", "fail">>
    /\ inv[2].resps = inv[1].resps
    /\ inv[2].calls = inv[1].calls
    /\ inv[2].ret = inv[1].ret
    /\ Len(inv[2].ret) = 1

----------------------------------------------------------------------------
(* Success, repetition and cancellation *)

\* the invocation returned without an error
Succeeded(i) == inv[i].pc = "done" /\ inv[i].ret = <<>>

\* every scheduled TagDelete was issued and answered without an error, and
\* no check observed a cancellation
DeletedAll(i) ==
    /\ Deleting(i)
    /\ inv[i].calls = inv[i].tagsToDelete
    /\ inv[i].resps = [k \in 1..Len(inv[i].calls) |-> "ok"]
    /\ ~Contains(inv[i].errs, ErrCanceled)

\* the tags of the invocation's listing that are in the repository
Remaining(i) == Range(inv[i].tTagsList) \cap repo[inv[i].tgt]

\* a compiling pattern of a sibling rule matches the tag
Excluded(tgt, t) == \E p \in PooledPatterns(tgt) : Compiles(p) /\ Matches(p, t)

\* C25 (as claimed): cleanupTags returns success only after the delete
\* stage with every scheduled TagDelete issued and successful and no
\* cancellation observed, and then every listed tag left in the repository
\* survives a filter set of a sibling rule or matches a pooled pattern.
C25_SuccessLeavesFilteredOrExcluded ==
    \A i \in Procs : Succeeded(i) =>
        /\ DeletedAll(i)
        /\ \A t \in Remaining(i) :
              t \in FilterUnion(inv[i].tgt, inv[i].tTagsList) \/ Excluded(inv[i].tgt, t)

\* C25 (amended): cleanupTags returns success only after the delete stage
\* with every scheduled TagDelete issued and successful and no cancellation
\* observed, and then every listed tag left in the repository is in
\* wantedTags, because it survives a filter set of a sibling rule or because
\* no sibling rule has a filter set, or matches a pooled pattern.
C25_SuccessLeavesWantedOrExcluded ==
    \A i \in Procs : Succeeded(i) =>
        /\ DeletedAll(i)
        /\ \A k \in 1..Len(inv[i].calls) : inv[i].calls[k] \notin repo[inv[i].tgt]
        /\ \A t \in Remaining(i) :
              \/ t \in FilterUnion(inv[i].tgt, inv[i].tTagsList)
              \/ \A j \in Siblings(inv[i].tgt) : FilterSetsOf(conf[j]) = {}
              \/ Excluded(inv[i].tgt, t)
        /\ \A t \in Remaining(i) :
              Contains(inv[i].wantedTags, t) \/ Excluded(inv[i].tgt, t)

\* a successful invocation deleted a tag and left one that a filter set
\* keeps and one that only a pattern protects
C25_Witness ==
    \E i \in Procs :
        /\ Succeeded(i)
        /\ inv[i].calls # <<>>
        /\ \E t \in Remaining(i) : t \in FilterUnion(inv[i].tgt, inv[i].tTagsList)
        /\ \E t \in Remaining(i) :
              /\ t \notin FilterUnion(inv[i].tgt, inv[i].tTagsList)
              /\ Excluded(inv[i].tgt, t)

\* the listing of the first invocation without the tags it called TagDelete for
LeftBy(i) ==
    SelectSeq(inv[i].tTagsList, LAMBDA t : ~Contains(inv[i].calls, t))

\* C26: after an invocation that returned success, a second invocation for
\* the same target that lists the tags the first one left, with the same
\* sync rules, schedules no tag, issues no TagDelete and returns success.
C26_SecondCleanupDeletesNothing ==
    ( /\ Succeeded(1)
      /\ Listed(2)
      /\ inv[2].tgt = inv[1].tgt
      /\ inv[2].tTagsList = LeftBy(1) )
    => /\ Deleting(2)
       /\ inv[2].tagsToDelete = <<>>
       /\ inv[2].calls = <<>>
       /\ inv[2].pc \in {"DeleteLoop", "done"}
       /\ inv[2].pc = "done" => inv[2].ret = <<>>
       /\ repo[inv[2].tgt] = Range(LeftBy(1))

\* the first invocation deleted a tag and left two; the second one listed
\* those two and returned success without a TagDelete
C26_Witness ==
    /\ Succeeded(1)
    /\ inv[1].calls # <<>>
    /\ Succeeded(2)
    /\ inv[2].tTagsList = LeftBy(1)
    /\ Len(inv[2].tTagsList) = 2
    /\ inv[2].calls = <<>>

\* the places of the Canceled marker in an error list
MarkersIn(errs) == {k \in 1..Len(errs) : errs[k] = ErrCanceled}

\* C27: the Canceled marker is in the result only when the check before a
\* scheduled deletion observed the cancellation, so a TagDelete of the
\* schedule was still to be issued; it is then the last entry and the only
\* marker. When the caller cancels with an empty schedule, or only after
\* the last scheduled TagDelete was issued, the result is the collected
\* failures without a marker, success when no deletion failed.
C27_MarkerOnlyBeforeScheduledDelete ==
    \A i \in Procs :
        /\ MarkersIn(inv[i].errs) # {} =>
              /\ inv[i].pc = "done"
              /\ inv[i].canceled
              /\ inv[i].ret = inv[i].errs
              /\ MarkersIn(inv[i].errs) = {Len(inv[i].errs)}
              /\ Len(inv[i].calls) < Len(inv[i].tagsToDelete)
              /\ Len(inv[i].resps) = Len(inv[i].calls)
        /\ MarkersIn(inv[i].ret) \subseteq MarkersIn(inv[i].errs)
        /\ ( /\ inv[i].pc = "done"
             /\ Deleting(i)
             /\ inv[i].calls = inv[i].tagsToDelete )
           => /\ inv[i].ret = FailuresOf(inv[i].calls, inv[i].resps)
              /\ MarkersIn(inv[i].ret) = {}
              /\ (\A k \in 1..Len(inv[i].resps) : inv[i].resps[k] = "ok")
                    => inv[i].ret = <<>>

\* the caller cancelled after the last scheduled TagDelete was issued: the
\* result is the one failure, without a marker
C27_Witness ==
    \E i \in Procs :
        /\ inv[i].pc = "done"
        /\ inv[i].canceled
        /\ Len(inv[i].tagsToDelete) = 2
        /\ inv[i].calls = inv[i].tagsToDelete
        /\ inv[i].resps = <<"ok", "fail">>
        /\ inv[i].ret = <<Err("DeleteFailed", inv[i].calls[2])>>

====
